---- MODULE Spec2Model ----
(***************************************************************************)
(* The Sinusitis DBQ wizard of src/app.py as a state machine.             *)
(*                                                                         *)
(* One user interaction is one action: the widget values the browser sends *)
(* (at most one edited widget and at most one clicked button), the script  *)
(* run it triggers and, when a handler calls st.rerun(), the run that      *)
(* follows.  The script is a function of the session state, so every phase *)
(* of a run is an operator on a record S that holds the session state, the *)
(* browser's draft slot and the object store.                              *)
(*                                                                         *)
(* The wizard holds the projection of ALL_KEYS_ORDERED on one field of     *)
(* every widget and rule class of every step (Keys); every rule is the     *)
(* source's rule restricted to the fields kept.  The envelope is built     *)
(* over the whole schema.                                                  *)
(***************************************************************************)
EXTENDS Naturals, Sequences, FiniteSets, TLC

\* Python's None, and "key not in st.session_state".
None == "<None>"
Absent == "<absent>"

\* ------------------------------------------------------------ field schema
K_1a == << "Sinusitis__c", "Sinusitis_1a__c" >>
K_Q10c == << "Sinusitis__c", "Sinus_Q10c__c" >>
K_Q11 == << "Sinusitis__c", "Sinus_Q11__c" >>
K_Q11a == << "Sinusitis__c", "Sinus_Q11a__c" >>
K_Q11aaa == << "Sinusitis__c", "Sinus_Q11aaa__c" >>
K_Q11aab == << "Sinusitis__c", "Sinus_Q11aab__c" >>
K_Q11aac == << "Sinusitis__c", "Sinus_Q11aac__c" >>
K_Q11aba == << "Sinusitis__c", "Sinus_Q11aba__c" >>
K_Q11abb == << "Sinusitis__c", "Sinus_Q11abb__c" >>
K_Q11abc == << "Sinusitis__c", "Sinus_Q11abc__c" >>
K_Q11aca == << "Sinusitis__c", "Sinus_Q11aca__c" >>
K_Q11acb == << "Sinusitis__c", "Sinus_Q11acb__c" >>
K_Q11acc == << "Sinusitis__c", "Sinus_Q11acc__c" >>
K_Q11b == << "Sinusitis__c", "Sinus_Q11b__c" >>
K_Q48 == << "Sinusitis__c", "Sinus_Q48__c" >>
K_Q34 == << "Sinusitis__c", "Sinus_Q34__c" >>
K_Q17 == << "Sinusitis__c", "Sinus_Q17__c" >>
K_Q17a == << "Sinusitis__c", "Sinus_Q17a__c" >>
K_Q21 == << "Sinusitis__c", "Sinus_Q21__c" >>
K_Name == << "Sinusitis__c", "DBQ__c", "Veteran_Name_Text__c" >>
K_Date == << "Sinusitis__c", "Date_Submitted__c" >>

\* The field identifiers in schema order, each as the segments of its dotted
\* name.
ALL_KEYS_ORDERED ==
  << K_1a, K_Q10c, K_Q11, K_Q11a, K_Q11aaa, K_Q11aab, K_Q11aac, K_Q11aba, K_Q11abb,
     K_Q11abc, K_Q11aca, K_Q11acb, K_Q11acc, K_Q11b, K_Q48, K_Q34,
     << "Sinusitis__c", "Sinus_Q12__c" >>, << "Sinusitis__c", "Sinus_Q13__c" >>,
     << "Sinusitis__c", "Sinus_Q14__c" >>, << "Sinusitis__c", "Sinus_Q15__c" >>,
     << "Sinusitis__c", "Sinus_Q16__c" >>, K_Q17, K_Q17a,
     << "Sinusitis__c", "Sinus_Q17aaa__c" >>, << "Sinusitis__c", "Sinus_Q17aaa1__c" >>,
     << "Sinusitis__c", "Sinus_Q17aab__c" >>, << "Sinusitis__c", "Sinus_Q17aba__c" >>,
     << "Sinusitis__c", "Sinus_Q17aba1__c" >>, << "Sinusitis__c", "Sinus_Q17abb__c" >>,
     << "Sinusitis__c", "Sinus_Q17abc__c" >>, << "Sinusitis__c", "Sinus_Q17abc1__c" >>,
     << "Sinusitis__c", "Sinus_Q17aca__c" >>, << "Sinusitis__c", "Sinus_Q17acb__c" >>,
     << "Sinusitis__c", "Sinus_Q17acb1__c" >>, << "Sinusitis__c", "Sinus_Q17acc__c" >>,
     << "Sinusitis__c", "Sinus_Q17b__c" >>, << "Sinusitis__c", "Sinus_Q17c__c" >>,
     << "Sinusitis__c", "Sinus_Q17d__c" >>, << "Sinusitis__c", "Sinus_Q20__c" >>,
     << "Sinusitis__c", "Sinus_Q20a__c" >>, << "Sinusitis__c", "Sinus_Q20b__c" >>,
     << "Sinusitis__c", "Sinus_Q20c__c" >>, << "Sinusitis__c", "Sinus_Q20d__c" >>,
     << "Sinusitis__c", "Sinus_Q35__c" >>, << "Sinusitis__c", "Sinus_Q35a__c" >>,
     << "Sinusitis__c", "Sinus_Q35b__c" >>, << "Sinusitis__c", "Sinus_Q35c__c" >>,
     << "Sinusitis__c", "Sinus_Q36__c" >>, << "Sinusitis__c", "Sinus_Q36a__c" >>,
     << "Sinusitis__c", "Sinus_Q36b__c" >>, << "Sinusitis__c", "Sinus_Q36c__c" >>,
     << "Sinusitis__c", "Sinus_Q36d__c" >>, << "Sinusitis__c", "Sinus_Q36e__c" >>,
     << "Sinusitis__c", "Sinus_Q36f__c" >>, << "Sinusitis__c", "Sinus_Q36g__c" >>,
     << "Sinusitis__c", "Sinus_Q36h__c" >>, << "Sinusitis__c", "Sinus_Q37__c" >>,
     << "Sinusitis__c", "Sinus_Q37a__c" >>, << "Sinusitis__c", "Sinus_Q38__c" >>,
     << "Sinusitis__c", "Sinus_Q38a__c" >>, << "Sinusitis__c", "Sinus_Q39__c" >>,
     << "Sinusitis__c", "Sinus_Q39a__c" >>, << "Sinusitis__c", "Sinus_Q39b__c" >>,
     << "Sinusitis__c", "Sinus_Q39c__c" >>, << "Sinusitis__c", "Sinus_Q39d__c" >>,
     << "Sinusitis__c", "Sinus_Q30__c" >>, << "Sinusitis__c", "Sinus_Q31__c" >>,
     << "Sinusitis__c", "Sinus_Q40__c" >>, << "Sinusitis__c", "Sinus_Q41__c" >>,
     << "Sinusitis__c", "Sinus_Q32__c" >>, << "Sinusitis__c", "Sinus_Q43__c" >>,
     << "Sinusitis__c", "Sinus_Q42__c" >>, << "Sinusitis__c", "Sinus_Q49__c" >>,
     << "Sinusitis__c", "Sinus_Q50__c" >>, << "Sinusitis__c", "Sinus_Q51__c" >>,
     << "Sinusitis__c", "Sinus_Q52__c" >>, << "Sinusitis__c", "Sinus_Q44__c" >>,
     << "Sinusitis__c", "Sinus_Q53__c" >>, << "Sinusitis__c", "Sinus_Q54__c" >>,
     << "Sinusitis__c", "Sinus_Q55__c" >>, << "Sinusitis__c", "Sinus_Q56__c" >>,
     << "Sinusitis__c", "Sinus_Q45__c" >>, << "Sinusitis__c", "Sinus_Q46__c" >>,
     << "Sinusitis__c", "Sinus_Q47__c" >>, << "Sinusitis__c", "Sinus_Q42e__c" >>, K_Q21,
     K_Name, K_Date >>

\* The fields the modelled widgets of the five steps hold.
Keys ==
  { K_1a, K_Q10c, K_Q11, K_Q11a, K_Q11aaa, K_Q11aab, K_Q11aac,
    K_Q48, K_Q34, K_Q17, K_Q17a, K_Q21, K_Name, K_Date }

\* key.replace("Sinusitis__c.", ""): a name without its segments "Sinusitis__c"
\* that a dot follows.
RECURSIVE core_key(_)
core_key(key) ==
  IF Len(key) <= 1 THEN key
  ELSE IF Head(key) = "Sinusitis__c" THEN core_key(Tail(key))
  ELSE << Head(key) >> \o core_key(Tail(key))

\* "a.b.c" from << "a", "b", "c" >>.
RECURSIVE Dotted(_)
Dotted(segments) ==
  IF Len(segments) = 0 THEN ""
  ELSE IF Len(segments) = 1 THEN segments[1]
  ELSE segments[1] \o "." \o Dotted(Tail(segments))

\* QUESTION_MAP.get(core_key, core_key): a core key without an entry is its own
\* label.
QUESTION_MAP(k) ==
  CASE k = << "Sinusitis_1a__c" >> -> "Initial claim or re-evaluation?"
    [] k = << "Sinus_Q10c__c" >> -> "Brief history of sinus condition"
    [] k = << "Sinus_Q11__c" >> -> "Do you currently take any medication?"
    [] k = << "Sinus_Q11a__c" >> -> "How many medications?"
    [] k = << "Sinus_Q11aaa__c" >> -> "Medication #1 Name"
    [] k = << "Sinus_Q11aba__c" >> -> "Medication #2 Name"
    [] k = << "Sinus_Q11aca__c" >> -> "Medication #3 Name"
    [] k = << "Sinus_Q48__c" >> -> "Seeking service connection?"
    [] k = << "Sinus_Q34__c" >> -> "Indicate the sinus/type of sinusitis affected"
    [] k = << "Sinus_Q15__c" >> -> "Number of non-incapacitating episodes (last 12 months)"
    [] k = << "Sinus_Q16__c" >> -> "Number of incapacitating episodes (last 12 months)"
    [] k = << "Sinus_Q12__c" >> -> "Symptoms checklist"
    [] k = << "Sinus_Q14__c" >> -> "Detailed symptom description"
    [] k = << "Sinus_Q17__c" >> -> "Ever had sinus surgery?"
    [] k = << "Sinus_Q17a__c" >> -> "How many sinus surgeries?"
    [] k = << "Sinus_Q17aaa__c" >> -> "Surgery #1 Date"
    [] k = << "Sinus_Q17aaa1__c" >> -> "Surgery #1 Type"
    [] k = << "Sinus_Q17aab__c" >> -> "Surgery #1 Findings"
    [] k = << "Sinus_Q17aba__c" >> -> "Surgery #2 Date"
    [] k = << "Sinus_Q17aba1__c" >> -> "Surgery #2 Type"
    [] k = << "Sinus_Q17abb__c" >> -> "Surgery #2 Findings"
    [] k = << "Sinus_Q17abc__c" >> -> "Surgery #3 Date"
    [] k = << "Sinus_Q17abc1__c" >> -> "Surgery #3 Type"
    [] k = << "Sinus_Q17aca__c" >> -> "Surgery #3 Findings"
    [] k = << "Sinus_Q17acb__c" >> -> "Surgery #4 Date"
    [] k = << "Sinus_Q17acb1__c" >> -> "Surgery #4 Type"
    [] k = << "Sinus_Q17acc__c" >> -> "Surgery #4 Findings"
    [] k = << "Sinus_Q17b__c" >> -> "Which sinus was operated on?"
    [] k = << "Sinus_Q17c__c" >> -> "Which side of your sinuses were operated on?"
    [] k = << "Sinus_Q17d__c" >> -> "Additional Surgeries (>4) Details"
    [] k = << "Sinus_Q21__c" >> -> "Occupational Impact"
    [] OTHER -> Dotted(k)

TOTAL_STEPS == 5

\* ------------------------------------------------------------ values
SelectItem == "--select an item--"
Select == "--select--"
EmptyList == "[]"
Today == "11/01/2026"

\* The values the "unanswered" test of get_readable_step_data filters out.
Sentinels == { None, "", Select, SelectItem }

\* Python truthiness of a stored value (not value).
Falsy(v) == v \in { None, Absent, "", EmptyList }

\* dict.get(key, default) on the session state or on form_data.
Get(m, k, d) == IF k \in DOMAIN m /\ m[k] # Absent THEN m[k] ELSE d

\* str.strip() on the text values of the model: only " " has edge blanks.
Strip(v) == IF v = " " THEN "" ELSE v

\* len(str) < n and str.isdigit() on the text values of the model.
StrLen(v) ==
  CASE v = "" -> 0
    [] v \in { "5", "a" } -> 1
    [] v \in { "ab", "10" } -> 2
    [] OTHER -> 3

IsDigit(v) == v \in { "5", "10" }

\* ------------------------------------------------------------ rules
NoError == [msg |-> "", n |-> 0]
Err(m) == [msg |-> m, n |-> 0]
ErrN(m, i) == [msg |-> m, n |-> i]

validate_step_1(ss) ==
  IF Get(ss, K_1a, None) \in { None, SelectItem }
  THEN Err("You must select whether this is an Initial Claim or a Re-evaluation.")
  ELSE IF Strip(Get(ss, K_Q10c, "")) = ""
  THEN Err("The History Area cannot be entirely empty.")
  ELSE NoError

med_keys ==
  << << K_Q11aaa, K_Q11aab, K_Q11aac >>,
     << K_Q11aba, K_Q11abb, K_Q11abc >>,
     << K_Q11aca, K_Q11acb, K_Q11acc >> >>

\* A record rule that looks at the dosage before the name.
med_record_error_dose_first(ss, i) ==
  LET med_name == Strip(Get(ss, med_keys[i][1], ""))
      med_dose == Strip(Get(ss, med_keys[i][2], ""))
      med_freq == Strip(Get(ss, med_keys[i][3], ""))
  IN  IF med_dose = "" THEN ErrN("Dosage is missing.", i)
      ELSE IF IsDigit(med_dose) THEN ErrN("Dosage is invalid. You must include a unit.", i)
      ELSE IF StrLen(med_dose) < 2 THEN ErrN("Dosage is too short.", i)
      ELSE IF StrLen(med_name) < 2 THEN ErrN("Name is missing or too short.", i)
      ELSE IF med_freq = "" THEN ErrN("Frequency is missing.", i)
      ELSE IF IsDigit(med_freq) THEN ErrN("Frequency cannot be just a number.", i)
      ELSE IF StrLen(med_freq) < 3 THEN ErrN("Frequency is too short.", i)
      ELSE NoError

\* The checks of one medication record, name, then dosage, then frequency.
med_record_error(ss, i) ==
  LET med_name == Strip(Get(ss, med_keys[i][1], ""))
      med_dose == Strip(Get(ss, med_keys[i][2], ""))
      med_freq == Strip(Get(ss, med_keys[i][3], ""))
  IN  IF StrLen(med_name) < 2 THEN ErrN("Name is missing or too short.", i)
      ELSE IF med_dose = "" THEN ErrN("Dosage is missing.", i)
      ELSE IF IsDigit(med_dose) THEN ErrN("Dosage is invalid. You must include a unit.", i)
      ELSE IF StrLen(med_dose) < 2 THEN ErrN("Dosage is too short.", i)
      ELSE IF med_freq = "" THEN ErrN("Frequency is missing.", i)
      ELSE IF IsDigit(med_freq) THEN ErrN("Frequency cannot be just a number.", i)
      ELSE IF StrLen(med_freq) < 3 THEN ErrN("Frequency is too short.", i)
      ELSE NoError

RECURSIVE med_loop(_, _, _)
med_loop(ss, i, check_limit) ==
  IF i > check_limit THEN NoError
  ELSE IF med_record_error(ss, i) # NoError THEN med_record_error(ss, i)
  ELSE med_loop(ss, i + 1, check_limit)

MedCount(n_meds) ==
  CASE n_meds = "More than 3" -> 4
    [] n_meds = "1" -> 1
    [] n_meds = "2" -> 2
    [] n_meds = "3" -> 3
    [] OTHER -> 0

py_validate_meds(ss) ==
  IF Get(ss, K_Q11, None) = "Yes"
  THEN LET n_meds == Get(ss, K_Q11a, None)
           count == MedCount(n_meds)
           check_limit == IF count < 3 THEN count ELSE 3
       IN  IF n_meds = Select THEN Err("Please select the number of medications.")
           ELSE IF count = 0 THEN Err("int() raises")
           ELSE IF med_loop(ss, 1, check_limit) # NoError
           THEN med_loop(ss, 1, check_limit)
           ELSE IF count = 4 /\ Strip(Get(ss, K_Q11b, "")) = ""
           THEN Err("You selected 'More than 3' medications. Please list the additional ones in the text area.")
           ELSE NoError
  ELSE NoError

validate_step_3(ss) ==
  LET sc_trig == Get(ss, K_Q48, Select)
  IN  IF sc_trig = Select THEN Err("Please answer if you are seeking service connection.")
      ELSE IF sc_trig = "Yes" /\ Falsy(Get(ss, K_Q34, None))
      THEN Err("Please indicate at least one affected sinus/type of sinusitis.")
      ELSE NoError

validate_step_4(ss) ==
  LET surg_trig == Get(ss, K_Q17, Select)
  IN  IF surg_trig = Select THEN Err("Please answer if you have ever had sinus surgery.")
      ELSE IF surg_trig = "Yes" /\ Get(ss, K_Q17a, Select) = Select
      THEN Err("Please select how many sinus surgeries you have had.")
      ELSE NoError

\* The names of the model that pass len(name.split()) >= 2 and the letters regex.
FullNames == { "A B", "C D" }

\* The dates of the model that match the MM/DD/YYYY regex.
DateFormatted == { Today, "10/31/2026" }

validate_step_5(ss) ==
  LET name == Strip(Get(ss, K_Name, ""))
      date_str == Strip(Get(ss, K_Date, ""))
  IN  IF name = ""
      THEN Err("Veteran Name is strictly required to sign and submit this document.")
      ELSE IF name \notin FullNames
      THEN Err("Please enter your full legal name (First and Last Name).")
      ELSE IF date_str = "" THEN Err("Date Submitted is strictly required.")
      ELSE IF date_str \notin DateFormatted
      THEN Err("Date Submitted MUST be exactly in MM/DD/YYYY format (e.g., 12/25/2024).")
      ELSE IF date_str # Today
      THEN Err("Date Submitted MUST be exactly today's date. Past or future dates are invalid.")
      ELSE NoError

\* python_validation of the step, as handed to render_navigation.
python_validation(step, ss) ==
  CASE step = 1 -> validate_step_1(ss)
    [] step = 2 -> py_validate_meds(ss)
    [] step = 3 -> validate_step_3(ss)
    [] step = 4 -> validate_step_4(ss)
    [] OTHER -> validate_step_5(ss)

\* ------------------------------------------------------------ semantic oracle
ApiKeyMissing == "Groq API Key missing in Secrets."
ApiError == "API Error: <res.text>"
ModelError == "Model error. Raw output: <response_text>"
CannotConnect == "Cannot connect to Groq server. Error: <e>"
DefaultHint == "Missing information. Please check your inputs."

\* What one call of the service can come back with.  body is what the 200
\* response holds: "object", the message content decodes to a JSON object;
\* "not_object", it decodes to a JSON value that is no object; "undecodable",
\* it is no JSON; "no_choices", the response itself is not of the chat
\* completion shape.  hint = Absent: the JSON object has no "hint" key;
\* hint = None: the key holds null.
Reply(api_key, transport, status_code, body, status, hint) ==
  [api_key |-> api_key, transport |-> transport, status_code |-> status_code,
   body |-> body, status |-> status, hint |-> hint]

ReplyPass == Reply(TRUE, "ok", 200, "object", "PASS", "")
ReplyFail == Reply(TRUE, "ok", 200, "object", "FAIL", "Please add when the symptoms began.")
ReplyFailEmptyHint == Reply(TRUE, "ok", 200, "object", "FAIL", "")
ReplyFailHintPass == Reply(TRUE, "ok", 200, "object", "FAIL", "PASS")
ReplyFailNoHint == Reply(TRUE, "ok", 200, "object", "FAIL", Absent)
ReplyFailNullHint == Reply(TRUE, "ok", 200, "object", "FAIL", None)
ReplyNotObject == Reply(TRUE, "ok", 200, "not_object", "", "")
ReplyUndecodable == Reply(TRUE, "ok", 200, "undecodable", "", "")
ReplyNoChoices == Reply(TRUE, "ok", 200, "no_choices", "", "")
ReplyHttpError == Reply(TRUE, "ok", 500, "", "", "")
ReplyTimeout == Reply(TRUE, "timeout", 0, "", "", "")
ReplyNoKey == Reply(FALSE, "", 0, "", "", "")

\* No call of the service was made.
NoReply == Reply(TRUE, "", 0, "", "", "")

\* Every kind of reply a call of the service can come back with.
OracleReplies ==
  { ReplyPass, ReplyFail, ReplyFailEmptyHint, ReplyFailHintPass, ReplyFailNoHint,
    ReplyFailNullHint, ReplyNotObject, ReplyUndecodable, ReplyNoChoices,
    ReplyHttpError, ReplyTimeout, ReplyNoKey }

\* GroqMedicalScribe.validate_step: the string (or None) handed to the caller.
validate_step(r) ==
  IF ~r.api_key THEN ApiKeyMissing
  ELSE IF r.transport # "ok" THEN CannotConnect
  ELSE IF r.status_code # 200 THEN ApiError
  ELSE IF r.body = "no_choices" THEN CannotConnect
  ELSE IF r.body = "undecodable" THEN ModelError
  ELSE IF r.body = "not_object" THEN CannotConnect
  ELSE IF r.status = "PASS" THEN "PASS"
  ELSE IF r.hint = Absent THEN DefaultHint
  ELSE r.hint

\* ------------------------------------------------------------ JSON
\* json.dumps / json.loads on one stored value: None is null, a string a string.
JsonValue(v) == IF v = None THEN [t |-> "null", s |-> ""] ELSE [t |-> "string", s |-> v]
PyValue(j) == IF j.t = "null" THEN None ELSE j.s

\* ------------------------------------------------------------ session state
NoSnapshot == { << None, None >> }

\* The session state after the initialisation block, with no widget key.
InitSession ==
  [ step |-> 1,
    form_data |-> [k \in Keys |-> None],
    current_warning |-> None,
    aws_upload_started |-> FALSE,
    force_restore |-> FALSE,
    step_validation_passed |-> FALSE,
    validated_step_data |-> NoSnapshot,
    aws_upload_triggered |-> FALSE,
    final_validation_passed |-> FALSE,
    ss |-> [k \in Keys |-> Absent],
    plain |-> {} ]

\* bool(st.session_state.current_warning)
Truthy(w) == w \notin { None, "" }

\* The forced or the gentle restore of the widget keys from form_data.
\* The keys the restore writes: the script's own entries of the session state.
restored(S) ==
  { k \in Keys : S.form_data[k] # None /\ (S.force_restore \/ S.ss[k] = Absent) }

restore(S) ==
  [S EXCEPT
     !.ss = [k \in Keys |-> IF k \in restored(S) THEN S.form_data[k] ELSE S.ss[k]],
     !.plain = @ \cup restored(S),
     !.force_restore = FALSE]

save_step_data(S) ==
  [S EXCEPT !.form_data = [k \in Keys |-> IF S.ss[k] # Absent THEN S.ss[k] ELSE @[k]]]

\* The dict of label -> value, as the set of its items.  m is st.session_state
\* (global_fetch = False) or form_data (global_fetch = True).
get_readable_step_data(m) ==
  { << QUESTION_MAP(core_key(k)), m[k] >> : k \in { x \in Keys : m[x] \notin Sentinels \cup { Absent } } }

\* An advance that skips a step.
proceed_two_steps(S) ==
  [save_step_data(S) EXCEPT
     !.current_warning = None,
     !.step_validation_passed = FALSE,
     !.validated_step_data = NoSnapshot,
     !.snapshot_step = 0,
     !.o_adv_det_err = (python_validation(S.step, S.ss) # NoError),
     !.step = S.step + 2,
     !.force_restore = TRUE]

proceed_to_next(S) ==
  [save_step_data(S) EXCEPT
     !.current_warning = None,
     !.step_validation_passed = FALSE,
     !.validated_step_data = NoSnapshot,
     !.snapshot_step = 0,
     !.o_adv_det_err = (python_validation(S.step, S.ss) # NoError),
     !.step = S.step + 1,
     !.force_restore = TRUE]

\* A step back that leaves the live answers uncommitted.
prev_step_uncommitted(S) ==
  [S EXCEPT
     !.current_warning = None,
     !.step_validation_passed = FALSE,
     !.validated_step_data = NoSnapshot,
     !.snapshot_step = 0,
     !.step = S.step - 1,
     !.force_restore = TRUE]

prev_step(S) ==
  [save_step_data(S) EXCEPT
     !.current_warning = None,
     !.step_validation_passed = FALSE,
     !.validated_step_data = NoSnapshot,
     !.snapshot_step = 0,
     !.step = S.step - 1,
     !.force_restore = TRUE]

\* ------------------------------------------------------------ sidebar
\* A draft that records whether it replaced an earlier one.
store_draft_counting(T) ==
  [T EXCEPT !.dbq_draft =
     { [step |-> T.step, form_data |-> [k \in Keys |-> JsonValue(T.form_data[k])],
        saved |-> IF T.dbq_draft = {} THEN 1 ELSE 2] }]

\* Save Progress: the draft slot holds json.dumps({step, form_data}).
store_draft(T) ==
  [T EXCEPT !.dbq_draft =
     { [step |-> T.step, form_data |-> [k \in Keys |-> JsonValue(T.form_data[k])]] }]

\* A Save Progress that would store the committed answers as they are.
save_committed_only(S) == store_draft(S)

SaveProgressHandler(S) == store_draft(save_step_data(S))

\* A Load Saved Progress that takes an empty slot for a draft of no answers.
load_empty_as_blank(S) ==
  IF S.dbq_draft = {}
  THEN [S EXCEPT
          !.step = 1,
          !.form_data = [k \in Keys |-> None],
          !.current_warning = None,
          !.aws_upload_started = FALSE,
          !.force_restore = TRUE,
          !.o_sidebar = "No saved progress found on this browser.",
          !.rerun = TRUE]
  ELSE LET draft_dict == CHOOSE d \in S.dbq_draft : TRUE
       IN  [S EXCEPT
              !.step = draft_dict.step,
              !.form_data = [k \in Keys |-> PyValue(draft_dict.form_data[k])],
              !.current_warning = None,
              !.aws_upload_started = FALSE,
              !.force_restore = TRUE,
              !.rerun = TRUE]

\* Load Saved Progress: nothing on an empty slot, else the draft replaces
\* step and form_data and the script reruns.
LoadSavedProgressHandler(S) ==
  IF S.dbq_draft = {} THEN [S EXCEPT !.o_sidebar = "No saved progress found on this browser."]
  ELSE LET draft_dict == CHOOSE d \in S.dbq_draft : TRUE
       IN  [S EXCEPT
              !.step = draft_dict.step,
              !.form_data = [k \in Keys |-> PyValue(draft_dict.form_data[k])],
              !.current_warning = None,
              !.aws_upload_started = FALSE,
              !.force_restore = TRUE,
              !.rerun = TRUE]

\* st.session_state.clear(): every key goes, the initialisation block of the
\* next run sets the defaults again.
session_clear(S) ==
  [S EXCEPT
     !.step = InitSession.step,
     !.form_data = InitSession.form_data,
     !.current_warning = InitSession.current_warning,
     !.aws_upload_started = InitSession.aws_upload_started,
     !.force_restore = InitSession.force_restore,
     !.step_validation_passed = InitSession.step_validation_passed,
     !.validated_step_data = InitSession.validated_step_data,
     !.aws_upload_triggered = InitSession.aws_upload_triggered,
     !.final_validation_passed = InitSession.final_validation_passed,
     !.ss = InitSession.ss,
     !.plain = InitSession.plain,
     !.snapshot_step = 0,
     !.audited = NoSnapshot,
     !.rerun = TRUE]

\* A Clear Current Answers that leaves the browser's storage alone.
clear_session_only(S) == session_clear(S)

ClearCurrentAnswersHandler(S) == [session_clear(S) EXCEPT !.dbq_draft = {}]

Sidebar(S, btn) ==
  CASE btn = "Save Progress" -> [SaveProgressHandler(S) EXCEPT !.o_handled = TRUE]
    [] btn = "Load Saved Progress" -> [LoadSavedProgressHandler(S) EXCEPT !.o_handled = TRUE]
    [] btn = "Clear Current Answers" -> [ClearCurrentAnswersHandler(S) EXCEPT !.o_handled = TRUE]
    [] OTHER -> S

\* ------------------------------------------------------------ step bodies
\* A keyed widget: its value is the session state's, or its default.
Render(S, k, default) ==
  [S EXCEPT
     !.ss[k] = IF @ = Absent THEN default ELSE @,
     !.rendered = @ \cup { k },
     !.plain = @ \ { k }]

Step1Body(S) ==
  LET A == Render(S, K_1a, SelectItem)
  IN  IF A.ss[K_1a] # SelectItem THEN Render(A, K_Q10c, "") ELSE A

Step2Body(S) ==
  LET A == Render(S, K_Q11, "No")
      B == Render(A, K_Q11a, Select)
  IN  IF A.ss[K_Q11] # "Yes" THEN A
      ELSE IF B.ss[K_Q11a] = Select THEN B
      ELSE Render(Render(Render(B, K_Q11aaa, ""), K_Q11aab, ""), K_Q11aac, "")

Step3Body(S) ==
  LET A == Render(S, K_Q48, "Yes")
  IN  IF A.ss[K_Q48] = "Yes" THEN Render(A, K_Q34, EmptyList) ELSE A

Step4Body(S) ==
  LET A == Render(S, K_Q17, "Yes")
  IN  IF A.ss[K_Q17] = "Yes" THEN Render(A, K_Q17a, Select) ELSE A

\* The submitted date is filled in with today's date while it is empty.
Step5Body(S) ==
  LET A == Render(S, K_Q21, "")
      B == IF Falsy(A.ss[K_Date])
           THEN [A EXCEPT
                   !.ss[K_Date] = Today,
                   !.plain = @ \cup { K_Date },
                   !.form_data[K_Date] = Today]
           ELSE A
  IN  Render(Render(B, K_Name, ""), K_Date, "")

Body(S) ==
  CASE S.step = 1 -> Step1Body(S)
    [] S.step = 2 -> Step2Body(S)
    [] S.step = 3 -> Step3Body(S)
    [] S.step = 4 -> Step4Body(S)
    [] OTHER -> Step5Body(S)

\* ------------------------------------------------------------ steps 1..4
\* What attempt_validation does with the oracle's answer about step_data, the
\* readable answers of the widget keys.
\* An audit whose PASS branch leaves the pending warning in place.
audit_result_keeps_warning(T, ai_response) ==
  IF ai_response = "PASS"
  THEN [T EXCEPT
          !.step_validation_passed = TRUE,
          !.validated_step_data = get_readable_step_data(T.ss),
          !.snapshot_step = T.step,
          !.touched = FALSE,
          !.o_oracle = @ + 1,
          !.o_ai_response = ai_response,
          !.o_payload = get_readable_step_data(T.ss),
          !.rerun = TRUE]
  ELSE [T EXCEPT
          !.current_warning = ai_response,
          !.step_validation_passed = FALSE,
          !.validated_step_data = NoSnapshot,
          !.snapshot_step = 0,
          !.o_oracle = @ + 1,
          !.o_ai_response = ai_response,
          !.o_payload = get_readable_step_data(T.ss),
          !.rerun = TRUE]

\* What attempt_validation does with the oracle's answer about step_data, the
\* readable answers of the widget keys.
audit_result(T, ai_response) ==
  IF ai_response = "PASS"
  THEN [T EXCEPT
          !.current_warning = None,
          !.step_validation_passed = TRUE,
          !.validated_step_data = get_readable_step_data(T.ss),
          !.snapshot_step = T.step,
          !.touched = FALSE,
          !.o_oracle = @ + 1,
          !.o_ai_response = ai_response,
          !.o_payload = get_readable_step_data(T.ss),
          !.rerun = TRUE]
  ELSE [T EXCEPT
          !.current_warning = ai_response,
          !.step_validation_passed = FALSE,
          !.validated_step_data = NoSnapshot,
          !.snapshot_step = 0,
          !.o_oracle = @ + 1,
          !.o_ai_response = ai_response,
          !.o_payload = get_readable_step_data(T.ss),
          !.rerun = TRUE]

attempt_validation(S, reply) ==
  [audit_result(save_step_data(S), validate_step(reply)) EXCEPT !.o_reply = reply]

\* A render_navigation without lines 356-364: the pass is never taken back.
snapshot_check_kept(S) == S

\* A check that takes the pass back and leaves the snapshot stored.
compare_snapshot_flag_only(T) ==
  IF get_readable_step_data(T.ss) # T.validated_step_data
  THEN [T EXCEPT
          !.step_validation_passed = FALSE,
          !.current_warning = None,
          !.o_revoked = TRUE]
  ELSE T

\* The pass is taken back when the answers on screen differ from the snapshot.
compare_snapshot(T) ==
  IF get_readable_step_data(T.ss) # T.validated_step_data
  THEN [T EXCEPT
          !.step_validation_passed = FALSE,
          !.validated_step_data = NoSnapshot,
          !.snapshot_step = 0,
          !.current_warning = None,
          !.o_revoked = TRUE]
  ELSE T

snapshot_check(S) ==
  IF S.step_validation_passed THEN compare_snapshot(save_step_data(S)) ELSE S

\* A validate button that reports the rule's error and asks the oracle all the same.
validate_button_asking(S, reply) ==
  IF python_validation(S.step, S.ss) # NoError
  THEN [attempt_validation(S, reply) EXCEPT !.o_det_err = TRUE]
  ELSE attempt_validation(S, reply)

\* A validate button: the deterministic rule, then the oracle.
validate_button(S, reply) ==
  IF python_validation(S.step, S.ss) # NoError
  THEN [S EXCEPT !.o_det_err = TRUE, !.o_err = python_validation(S.step, S.ss)]
  ELSE attempt_validation(S, reply)

\* A Continue Anyway that reports the rule's error and goes on all the same.
continue_anyway_unblocked(S) ==
  [proceed_to_next(S) EXCEPT
     !.o_det_err = (python_validation(S.step, S.ss) # NoError),
     !.rerun = TRUE]

\* Continue Anyway: the deterministic rule, then the next step.
continue_anyway_button(S) ==
  IF python_validation(S.step, S.ss) # NoError
  THEN [S EXCEPT !.o_det_err = TRUE, !.o_err = python_validation(S.step, S.ss)]
  ELSE [proceed_to_next(S) EXCEPT !.rerun = TRUE]

\* A Proceed that asks the oracle once more before it advances.
proceed_button_asking(S) ==
  [proceed_to_next(S) EXCEPT
     !.o_matched = (get_readable_step_data(S.ss) = S.validated_step_data),
     !.o_pass_step = S.snapshot_step,
     !.o_touched = S.touched,
     !.o_oracle = @ + 1,
     !.rerun = TRUE]

\* Proceed to Next Step: the next step, with no call of the validator.
proceed_button(S) ==
  [proceed_to_next(S) EXCEPT
     !.o_matched = (get_readable_step_data(S.ss) = S.validated_step_data),
     !.o_pass_step = S.snapshot_step,
     !.o_touched = S.touched,
     !.rerun = TRUE]

\* The buttons of render_navigation, after the divergence check.
navigation_buttons(S, btn, reply) ==
  IF Truthy(S.current_warning)
  THEN CASE btn = "Validate Again" -> validate_button([S EXCEPT !.o_handled = TRUE], reply)
         [] btn = "Continue Anyway" -> continue_anyway_button([S EXCEPT !.o_handled = TRUE])
         [] OTHER -> S
  ELSE IF S.step_validation_passed
  THEN IF btn = "Proceed to Next Step"
       THEN proceed_button([S EXCEPT !.o_handled = TRUE]) ELSE S
  ELSE IF btn = "Validate Step"
       THEN validate_button([S EXCEPT !.o_handled = TRUE], reply) ELSE S

render_navigation(S0, btn, reply) == navigation_buttons(snapshot_check(S0), btn, reply)

\* ------------------------------------------------------------ step 5
\* What the Validate Full Form handler does with the oracle's answer about
\* full_form_data, the readable answers of form_data.
final_result(T, ai_response) ==
  IF ai_response = "PASS"
  THEN [T EXCEPT
          !.final_validation_passed = TRUE,
          !.audited = get_readable_step_data(T.form_data),
          !.o_oracle = @ + 1,
          !.o_ai_response = ai_response,
          !.rerun = TRUE]
  ELSE [T EXCEPT
          !.current_warning = ai_response,
          !.o_oracle = @ + 1,
          !.o_ai_response = ai_response,
          !.rerun = TRUE]

final_validation(S, reply) ==
  [final_result(save_step_data(S), validate_step(reply)) EXCEPT !.o_reply = reply]

validate_full_form_button(S, reply) ==
  IF validate_step_5(S.ss) # NoError
  THEN [S EXCEPT !.o_det_err = TRUE]
  ELSE final_validation(S, reply)

re_evaluate_button(S) ==
  IF validate_step_5(S.ss) # NoError
  THEN [S EXCEPT !.o_det_err = TRUE]
  ELSE [S EXCEPT
          !.current_warning = None,
          !.final_validation_passed = FALSE,
          !.audited = NoSnapshot,
          !.rerun = TRUE]

submit_anyway_button(S) ==
  IF validate_step_5(S.ss) # NoError
  THEN [S EXCEPT !.o_det_err = TRUE]
  ELSE [S EXCEPT !.aws_upload_triggered = TRUE, !.rerun = TRUE]

submit_button(S) == [S EXCEPT !.aws_upload_triggered = TRUE, !.rerun = TRUE]

step5_back_button(S) ==
  [prev_step([S EXCEPT !.final_validation_passed = FALSE, !.audited = NoSnapshot]) EXCEPT
     !.rerun = TRUE]

Step5Navigation(S, btn, reply) ==
  IF S.aws_upload_triggered THEN S
  ELSE IF btn = "Back (step 5)" THEN step5_back_button([S EXCEPT !.o_handled = TRUE])
  ELSE IF Truthy(S.current_warning)
  THEN CASE btn = "Re-evaluate Full Form" ->
              re_evaluate_button([S EXCEPT !.o_handled = TRUE])
         [] btn = "Submit Anyway" -> submit_anyway_button([S EXCEPT !.o_handled = TRUE])
         [] OTHER -> S
  ELSE IF S.final_validation_passed
  THEN IF btn = "Submit" THEN submit_button([S EXCEPT !.o_handled = TRUE]) ELSE S
  ELSE IF btn = "Validate Full Form"
       THEN validate_full_form_button([S EXCEPT !.o_handled = TRUE], reply) ELSE S

\* ------------------------------------------------------------ submission
initial_wait == 30
timeout == 180
poll_sleep == 5

\* What the result bucket does: the object exists from second `at` after the
\* upload ("appears"), every get fails with another error from second `at`
\* ("error"), or the key is never there ("never").
Store(kind, at, doc) == [kind |-> kind, at |-> at, doc |-> doc]

ResultDoc == "{\"rating\": 30}"

\* The bodies an object of the result bucket can have: JSON documents, and one
\* that json.loads rejects.
Garbled == "<html>"
ResultDocs == { ResultDoc, "{}", "[]", "0", "null", Garbled }

\* json.loads(file_content): whether it returns, and the value it returns.
Decodes(text) == text # Garbled
json_loads(text) == IF text = "null" THEN None ELSE text

PollStores == { Store("appears", 40, ResultDoc), Store("error", 30, None), Store("never", 0, None) }

CaseIds == { "123456", "654321" }

RECURSIVE poll_loop(_, _, _)
poll_loop(store, elapsed, gets) ==
  IF ~(elapsed < timeout)
  THEN [result |-> None, message |-> "Timeout: too long to process the file.", gets |-> gets]
  ELSE IF store.kind = "appears" /\ initial_wait + elapsed >= store.at
  THEN IF Decodes(store.doc)
       THEN [result |-> json_loads(store.doc),
             message |-> "Processing Complete! Result received.", gets |-> gets + 1]
       ELSE [result |-> None, message |-> "Error", gets |-> gets + 1]
  ELSE IF store.kind = "error" /\ initial_wait + elapsed >= store.at
  THEN [result |-> None, message |-> "S3 Error", gets |-> gets + 1]
  ELSE poll_loop(store, elapsed + poll_sleep, gets + 1)

poll_output_bucket(filename, store) == poll_loop(store, 0, 0)

\* bool(result_data)
FalsyDoc(d) == d \in { None, "{}", "[]", "0", "null" }

Filename(case_id) == << "DBQ_Sinus_", case_id, ".json" >>

\* for key in ALL_KEYS_ORDERED: output["DPA"][core_key] = {...}.  A dict keeps
\* its keys in the order of their first assignment and, for each key, the value
\* of its last assignment: the entry of the i-th schema key exists when no
\* earlier key has its core key, and holds the answer of the last key that has.
first_write(i) ==
  \A j \in 1..(i - 1) : core_key(ALL_KEYS_ORDERED[j]) # core_key(ALL_KEYS_ORDERED[i])

last_write(i) ==
  CHOOSE j \in i..Len(ALL_KEYS_ORDERED) :
    /\ core_key(ALL_KEYS_ORDERED[j]) = core_key(ALL_KEYS_ORDERED[i])
    /\ \A n \in (j + 1)..Len(ALL_KEYS_ORDERED) :
         core_key(ALL_KEYS_ORDERED[n]) # core_key(ALL_KEYS_ORDERED[i])

\* The schema keys that open an entry of the dict, in schema order.
DPA_PLACES == SelectSeq([i \in 1..Len(ALL_KEYS_ORDERED) |-> i], first_write)

\* No two schema keys have one core key: every assignment opens an entry.
core_keys_distinct ==
  Cardinality({ core_key(ALL_KEYS_ORDERED[i]) : i \in 1..Len(ALL_KEYS_ORDERED) })
    = Len(ALL_KEYS_ORDERED)

\* The entry the i-th schema key opens, with the answer of the j-th key.
DPA_entry(form_data, i, j) ==
  [ key |-> core_key(ALL_KEYS_ORDERED[i]),
    Question |-> QUESTION_MAP(core_key(ALL_KEYS_ORDERED[i])),
    Answer |-> JsonValue(Get(form_data, ALL_KEYS_ORDERED[j], None)) ]

DPA_of(form_data) ==
  IF core_keys_distinct
  THEN [i \in 1..Len(ALL_KEYS_ORDERED) |-> DPA_entry(form_data, i, i)]
  ELSE [n \in 1..Len(DPA_PLACES) |->
          DPA_entry(form_data, DPA_PLACES[n], last_write(DPA_PLACES[n]))]

\* An envelope that would hold the answered fields only.
answered_only(form_data, case_id) ==
  [ caseID |-> case_id,
    DBQType |-> "sinus",
    DPA |-> SelectSeq(DPA_of(form_data), LAMBDA e : e.Answer.t # "null") ]

\* The envelope: output["DPA"] is filled key by key in schema order.
generate_tailored_json(form_data, case_id) ==
  [ caseID |-> case_id,
    DBQType |-> "sinus",
    DPA |-> DPA_of(form_data) ]

\* upload_to_source, then poll_output_bucket when the upload succeeded.
upload_and_poll(T, io, json_string) ==
  IF io.upload_ok
  THEN [T EXCEPT
          !.s3_puts = Append(@, [key |-> << "source_files/", Filename(json_string.caseID) >>,
                                 body |-> json_string,
                                 polled |-> Filename(json_string.caseID)]),
          !.o_uploads = @ + 1,
          !.o_gets = @ + poll_output_bucket(Filename(json_string.caseID), io.store).gets,
          !.o_status =
             IF FalsyDoc(poll_output_bucket(Filename(json_string.caseID), io.store).result)
             THEN "Processing Failed or Timed Out"
             ELSE "Processing Complete!"]
  ELSE [T EXCEPT !.o_uploads = @ + 1, !.o_status = "Upload Failed"]

\* An upload block that takes the case id of an earlier submission.
upload_stored_case_id(T, io) ==
  [upload_and_poll(T, io, generate_tailored_json(T.form_data, "123456")) EXCEPT
     !.o_case_id = io.case_id]

\* io.case_id is what random.choices draws in this run of the block.
upload_form(T, io) ==
  [upload_and_poll(T, io, generate_tailored_json(T.form_data, io.case_id)) EXCEPT
     !.o_case_id = io.case_id]

\* The block that runs on every script run at step 5 while aws_upload_triggered.
UploadBlock(S, io) ==
  IF S.step = 5 /\ S.aws_upload_triggered THEN upload_form(save_step_data(S), io) ELSE S

\* A Start New Form that empties the browser's draft slot with the session.
start_new_form_deleting(S) == [session_clear(S) EXCEPT !.dbq_draft = {}]

StartNewFormHandler(S) == session_clear(S)

\* ------------------------------------------------------------ one script run
NavigationShown(S) == S.step \in 1..4 /\ (S.step = 1 => S.ss[K_1a] # SelectItem)

\* The Start New Form button, below the upload block.
start_new_form_button(S5, btn) ==
  IF S5.step = 5 /\ S5.aws_upload_triggered /\ btn = "Start New Form"
  THEN StartNewFormHandler([S5 EXCEPT !.o_handled = TRUE])
  ELSE S5

\* The navigation of the step on screen.
Navigation(S3, btn, reply) ==
  IF S3.step = 5 THEN Step5Navigation(S3, btn, reply)
  ELSE IF NavigationShown(S3) THEN render_navigation(S3, btn, reply)
  ELSE S3

\* The script from top to bottom; st.rerun() ends the run where it is called.
AfterNavigation(S4, btn, io) ==
  IF S4.rerun THEN S4 ELSE start_new_form_button(UploadBlock(S4, io), btn)

AfterSidebar(S2, btn, io) ==
  IF S2.rerun THEN S2 ELSE AfterNavigation(Navigation(Body(S2), btn, io.reply), btn, io)

ScriptRun(S0, btn, io) == AfterSidebar(Sidebar(restore(S0), btn), btn, io)

\* The end of a run: the state of a widget that was not rendered is dropped,
\* the entries the script wrote itself (plain) stay. A run cut short by
\* st.rerun() drops it (gc) or keeps it, by the version of the framework.
EndRun(S, gc) ==
  IF S.rerun /\ ~gc THEN S
  ELSE [S EXCEPT !.ss = [k \in Keys |->
                           IF k \in S.rendered \cup S.plain THEN @[k] ELSE Absent]]

\* The browser's message: one widget event (an edited value, or a click), then
\* the on_click callback of the Back button of steps 1..4, then the script, and
\* the rerun it asks for.
Callback(S0, btn) ==
  IF btn = "Back" THEN [prev_step(S0) EXCEPT !.o_handled = TRUE] ELSE S0

Rerun(R1, io) ==
  IF R1.rerun
  THEN EndRun(ScriptRun([R1 EXCEPT !.rerun = FALSE, !.rendered = {}], "", io), TRUE)
  ELSE R1

Interaction(S0, btn, io, gc) ==
  Rerun(EndRun(ScriptRun(Callback(S0, btn), btn, io), gc), io)

\* ------------------------------------------------------------ state
VARIABLES
  step, form_data,
  ss,          \* the widget keys of the session state (Absent: no such key)
  plain,       \* the widget keys whose entry the script wrote and no widget took yet
  current_warning, aws_upload_started, force_restore,
  step_validation_passed, validated_step_data, aws_upload_triggered,
  final_validation_passed,
  dbq_draft,   \* the browser's draft slot: empty, or the one serialized draft
  s3_puts,     \* the objects the latest interaction put in the source bucket
  snapshot_step, \* history: the step at which validated_step_data was taken (0: none)
  audited,     \* history: the answers final_validation_passed was given for
  touched,     \* history: an answer was changed since the snapshot was taken
  last,        \* history: what the latest interaction did
  poll,        \* the submission pipeline taken step by step (SpecPoll)
  edits,       \* history: the number of widget edits so far
  saves        \* history: the number of drafts saved so far

vars ==
  << step, form_data, ss, plain, current_warning, aws_upload_started, force_restore,
     step_validation_passed, validated_step_data, aws_upload_triggered,
     final_validation_passed, dbq_draft, s3_puts, snapshot_step, audited, touched, last,
     poll, edits, saves >>

\* The number of widget edits of one behaviour, of the edits it can make on top
\* of them at the last step, and of its saved drafts.
MaxEdits == 4

MaxEditsAtLastStep == 1

MaxSaves == 1

\* The number of widget edits of a behaviour that starts at step 5.
MaxEditsStep5 == 2
MaxEditsAudit == 5

\* The values a user gives each widget; the widgets not named keep their default.
EditValues(k) ==
  CASE k = K_1a -> { SelectItem, "Initial Claim" }
    [] k = K_Q10c -> { "", "Began in 2004 near burn pits." }
    [] k = K_Q11 -> { "Yes", "No" }
    [] k = K_Q48 -> { "Yes", "No" }
    [] k = K_Q17 -> { "Yes", "No" }
    [] k = K_Name -> { "", "A B" }
    [] k = K_Date -> { "", Today }
    [] OTHER -> {}

\* The replies the oracle gives the wizard.
WizardReplies == { ReplyPass, ReplyFail }

\* The answers the next script run reads: the widgets on screen and, put back by
\* the prelude, the committed answers of the others.
ReadableLive(S) == get_readable_step_data(restore(S).ss)

\* The state as the record the script works on, the observations reset.
Now ==
  [ step |-> step, form_data |-> form_data, ss |-> ss, plain |-> plain,
    current_warning |-> current_warning, aws_upload_started |-> aws_upload_started,
    force_restore |-> force_restore, step_validation_passed |-> step_validation_passed,
    validated_step_data |-> validated_step_data,
    aws_upload_triggered |-> aws_upload_triggered,
    final_validation_passed |-> final_validation_passed,
    dbq_draft |-> dbq_draft, s3_puts |-> << >>, snapshot_step |-> snapshot_step,
    audited |-> audited,
    rerun |-> FALSE, rendered |-> {},
    o_handled |-> FALSE, o_det_err |-> FALSE, o_oracle |-> 0, o_uploads |-> 0, o_gets |-> 0,
    o_status |-> "", o_matched |-> FALSE, o_adv_det_err |-> FALSE,
    o_pass_step |-> 0, o_revoked |-> FALSE, o_touched |-> FALSE, touched |-> touched,
    o_reply |-> NoReply, o_ai_response |-> "", o_payload |-> NoSnapshot, o_sidebar |-> "",
    o_case_id |-> "", o_err |-> NoError ]

Observed(S, act) ==
  [ act |-> act, from |-> step, handled |-> S.o_handled,
    det_err |-> S.o_det_err, oracle |-> S.o_oracle, uploads |-> S.o_uploads,
    gets |-> S.o_gets,
    matched |-> S.o_matched, pass_step |-> S.o_pass_step,
    revoked |-> S.o_revoked, touched |-> S.o_touched,
    adv_det_err |-> S.o_adv_det_err,
    after_save |-> (last.act = "Save Progress" /\ last.handled),
    reply |-> S.o_reply, ai_response |-> S.o_ai_response, payload |-> S.o_payload,
    sidebar |-> S.o_sidebar, case_id |-> S.o_case_id, err |-> S.o_err ]

Becomes(S, act) ==
  /\ step' = S.step
  /\ form_data' = S.form_data
  /\ ss' = S.ss
  /\ plain' = S.plain
  /\ current_warning' = S.current_warning
  /\ aws_upload_started' = S.aws_upload_started
  /\ force_restore' = S.force_restore
  /\ step_validation_passed' = S.step_validation_passed
  /\ validated_step_data' = S.validated_step_data
  /\ aws_upload_triggered' = S.aws_upload_triggered
  /\ final_validation_passed' = S.final_validation_passed
  /\ dbq_draft' = S.dbq_draft
  /\ s3_puts' = S.s3_puts
  /\ snapshot_step' = S.snapshot_step
  /\ audited' = S.audited
  /\ touched' = (S.validated_step_data # NoSnapshot
                  /\ (S.touched \/ (act = "Edit" /\ ReadableLive(S) # ReadableLive(Now))))
  /\ last' = Observed(S, act)
  /\ poll' = poll
  /\ edits' = IF act = "Edit" THEN edits + 1 ELSE edits
  /\ saves' = IF act = "Save Progress" THEN saves + 1 ELSE saves

\* The widgets on screen, and the edits a user can make to one of them.
RealEdits ==
  { e \in { << k, v >> : k \in { x \in Keys : ss[x] # Absent /\ x \notin plain },
                          v \in UNION { EditValues(x) : x \in Keys } } :
      e[2] \in EditValues(e[1]) /\ e[2] # ss[e[1]] }

NoStore == Store("never", 0, None)

IO(reply, upload_ok, store, case_id) ==
  [reply |-> reply, upload_ok |-> upload_ok, store |-> store, case_id |-> case_id]

\* The store behind the wizard: the result appears after 40 seconds. What the
\* poll makes of the other stores changes the message on screen only.
WizardStores == { Store("appears", 40, ResultDoc) }

\* What the store does during an interaction that reaches the upload block.
UploadIOs(reply) ==
  { IO(reply, TRUE, s, c) : s \in WizardStores, c \in CaseIds }
    \cup { IO(reply, FALSE, NoStore, "123456") }

QuietIO(reply) == IO(reply, FALSE, NoStore, "123456")

StoreIOs(btn, reply) ==
  IF aws_upload_triggered \/ btn \in { "Submit", "Submit Anyway" }
  THEN UploadIOs(reply) ELSE { QuietIO(reply) }

\* ------------------------------------------------------------ what is on screen
NavShown == step \in 1..4 /\ (step = 1 => ss[K_1a] # SelectItem)

Step5Buttons == step = 5 /\ ~aws_upload_triggered

Displayed(btn) ==
  CASE btn \in { "Save Progress", "Load Saved Progress", "Clear Current Answers" } -> TRUE
    [] btn = "Back" -> NavShown /\ step > 1
    [] btn \in { "Validate Again", "Continue Anyway" } -> NavShown /\ Truthy(current_warning)
    [] btn = "Proceed to Next Step" ->
         NavShown /\ ~Truthy(current_warning) /\ step_validation_passed
    [] btn = "Validate Step" ->
         NavShown /\ ~Truthy(current_warning) /\ ~step_validation_passed
    [] btn = "Back (step 5)" -> Step5Buttons
    [] btn \in { "Re-evaluate Full Form", "Submit Anyway" } ->
         Step5Buttons /\ Truthy(current_warning)
    [] btn = "Submit" ->
         Step5Buttons /\ ~Truthy(current_warning) /\ final_validation_passed
    [] btn = "Validate Full Form" ->
         Step5Buttons /\ ~Truthy(current_warning) /\ ~final_validation_passed
    [] btn = "Start New Form" -> step = 5 /\ aws_upload_triggered
    [] OTHER -> FALSE

\* ------------------------------------------------------------ actions
\* The record of a session, its observations reset before an interaction.
Fresh(S) ==
  [S EXCEPT
     !.s3_puts = << >>, !.rerun = FALSE, !.rendered = {},
     !.o_handled = FALSE, !.o_det_err = FALSE, !.o_oracle = 0, !.o_uploads = 0, !.o_gets = 0,
     !.o_status = "", !.o_matched = FALSE, !.o_adv_det_err = FALSE,
     !.o_pass_step = 0, !.o_revoked = FALSE, !.o_touched = FALSE,
     !.o_reply = NoReply, !.o_ai_response = "", !.o_payload = NoSnapshot,
     !.o_sidebar = "", !.o_case_id = "", !.o_err = NoError]

\* The session after the first script run: step 1 with the claim type on screen.
Opened ==
  [ step |-> InitSession.step, form_data |-> InitSession.form_data,
    ss |-> [InitSession.ss EXCEPT ![K_1a] = SelectItem],
    plain |-> InitSession.plain,
    current_warning |-> InitSession.current_warning,
    aws_upload_started |-> InitSession.aws_upload_started,
    force_restore |-> InitSession.force_restore,
    step_validation_passed |-> InitSession.step_validation_passed,
    validated_step_data |-> InitSession.validated_step_data,
    aws_upload_triggered |-> InitSession.aws_upload_triggered,
    final_validation_passed |-> InitSession.final_validation_passed,
    dbq_draft |-> {}, s3_puts |-> << >>, snapshot_step |-> 0,
    audited |-> NoSnapshot,
    rerun |-> FALSE, rendered |-> {},
    o_handled |-> FALSE, o_det_err |-> FALSE, o_oracle |-> 0, o_uploads |-> 0, o_gets |-> 0,
    o_status |-> "", o_matched |-> FALSE, o_adv_det_err |-> FALSE,
    o_pass_step |-> 0, o_revoked |-> FALSE, o_touched |-> FALSE, touched |-> FALSE,
    o_reply |-> NoReply, o_ai_response |-> "", o_payload |-> NoSnapshot, o_sidebar |-> "",
    o_case_id |-> "", o_err |-> NoError ]

NoAction ==
  [ act |-> "", from |-> 1, handled |-> FALSE,
    det_err |-> FALSE, oracle |-> 0, uploads |-> 0, gets |-> 0, matched |-> FALSE,
    pass_step |-> 0, revoked |-> FALSE, touched |-> FALSE,
    adv_det_err |-> FALSE, after_save |-> FALSE,
    reply |-> NoReply, ai_response |-> "", payload |-> NoSnapshot, sidebar |-> "",
    case_id |-> "", err |-> NoError ]

\* The variables hold the session S, and nothing was done to it yet.
Holds(S) ==
  /\ step = S.step
  /\ form_data = S.form_data
  /\ ss = S.ss
  /\ plain = S.plain
  /\ current_warning = S.current_warning
  /\ aws_upload_started = S.aws_upload_started
  /\ force_restore = S.force_restore
  /\ step_validation_passed = S.step_validation_passed
  /\ validated_step_data = S.validated_step_data
  /\ aws_upload_triggered = S.aws_upload_triggered
  /\ final_validation_passed = S.final_validation_passed
  /\ dbq_draft = S.dbq_draft
  /\ s3_puts = S.s3_puts
  /\ snapshot_step = S.snapshot_step
  /\ audited = S.audited
  /\ touched = S.touched

\* The submission pipeline at rest.
PollIdle ==
  [ pc |-> "idle", now |-> 0, store |-> NoStore, latency |-> 0, case_id |-> "",
    upload_ok |-> FALSE, put_key |-> << >>, put_at |-> 0, quiet_left |-> 0,
    start_time |-> 0, gets |-> 0, get_key |-> << >>, get_at |-> 0, first_get_at |-> 0,
    answer |-> "", sleeps |-> 0, result |-> None, message |-> "", status |-> "",
    displayed |-> None, cause |-> "" ]

Init ==
  /\ Holds(Opened)
  /\ last = NoAction
  /\ poll = PollIdle
  /\ edits = 0
  /\ saves = 0

\* What the framework does with the widget state when st.rerun() cuts a run
\* short. Only the Load handler reruns before the step's widgets are rendered;
\* the other handlers rerun below them, or after session_state.clear(), where
\* the cleanup finds nothing to drop.
Cleanups(btn) == IF btn = "Load Saved Progress" THEN BOOLEAN ELSE { TRUE }

\* A click with no oracle call behind it.
Click(btn) ==
  \E io \in StoreIOs(btn, ReplyPass), gc \in Cleanups(btn) :
    Becomes(Interaction(Now, btn, io, gc), btn)

\* A second click on the button that was clicked last, with nothing in between.
ClickAgain(btn) ==
  \E io \in StoreIOs(btn, ReplyPass), gc \in Cleanups(btn) :
    Becomes(Interaction(Now, btn, io, gc), "Save Progress again")

\* A click on a button that asks the oracle.
ClickValidate(btn) ==
  \E reply \in WizardReplies, gc \in Cleanups(btn) :
    \E io \in StoreIOs(btn, reply) :
      Becomes(Interaction(Now, btn, io, gc), btn)

\* The user changes the value of one widget on screen.
EditWidget ==
  \E e \in RealEdits, io \in StoreIOs("", ReplyPass) :
    Becomes(Interaction([Now EXCEPT !.ss[e[1]] = e[2]], "", io, TRUE), "Edit")

EditBudget == IF step = TOTAL_STEPS THEN MaxEdits + MaxEditsAtLastStep ELSE MaxEdits

Edit == edits < EditBudget /\ EditWidget

SaveProgress == saves < MaxSaves /\ Displayed("Save Progress") /\ Click("Save Progress")
SaveProgressAgain == (last.act = "Save Progress" /\ last.handled) /\ ClickAgain("Save Progress")
LoadSavedProgress == Displayed("Load Saved Progress") /\ Click("Load Saved Progress")
ClearCurrentAnswers == Displayed("Clear Current Answers") /\ Click("Clear Current Answers")
Back == Displayed("Back") /\ Click("Back")
ValidateStep == Displayed("Validate Step") /\ ClickValidate("Validate Step")
ValidateAgain == Displayed("Validate Again") /\ ClickValidate("Validate Again")
ContinueAnyway == Displayed("Continue Anyway") /\ Click("Continue Anyway")
ProceedToNextStep == Displayed("Proceed to Next Step") /\ Click("Proceed to Next Step")
Step5Back == Displayed("Back (step 5)") /\ Click("Back (step 5)")
ValidateFullForm == Displayed("Validate Full Form") /\ ClickValidate("Validate Full Form")
ReEvaluateFullForm == Displayed("Re-evaluate Full Form") /\ Click("Re-evaluate Full Form")
SubmitAnyway == Displayed("Submit Anyway") /\ Click("Submit Anyway")
Submit == Displayed("Submit") /\ Click("Submit")
StartNewForm == Displayed("Start New Form") /\ Click("Start New Form")

Next ==
  \/ Edit
  \/ SaveProgress
  \/ SaveProgressAgain
  \/ LoadSavedProgress
  \/ ClearCurrentAnswers
  \/ Back
  \/ ValidateStep
  \/ ValidateAgain
  \/ ContinueAnyway
  \/ ProceedToNextStep
  \/ Step5Back
  \/ ValidateFullForm
  \/ ReEvaluateFullForm
  \/ SubmitAnyway
  \/ Submit
  \/ StartNewForm

Spec == Init /\ [][Next]_vars

\* ------------------------------------------------------------ the session at step 5
\* The session of a user who answers steps 1..4 as asked (the claim type and the
\* history, no medication, no service connection, no surgery), has each step
\* validated with a PASS and proceeds: a state of Spec (Step5SessionReached),
\* from which the interactions at the last step are explored with a budget of
\* edits of their own.
Step5Session ==
  [Opened EXCEPT
     !.step = 5,
     !.form_data = [k \in Keys |->
        CASE k = K_1a -> "Initial Claim"
          [] k = K_Q10c -> "Began in 2004 near burn pits."
          [] k = K_Q11 -> "No"
          [] k = K_Q48 -> "No"
          [] k = K_Q17 -> "No"
          [] k = K_Date -> Today
          [] OTHER -> None],
     !.ss = [k \in Keys |->
        CASE k = K_1a -> "Initial Claim"
          [] k = K_Q10c -> "Began in 2004 near burn pits."
          [] k \in { K_Q11, K_Q48, K_Q17 } -> "No"
          [] k \in { K_Q21, K_Name } -> ""
          [] k = K_Date -> Today
          [] OTHER -> Absent],
     !.plain = { K_1a, K_Q10c, K_Q11, K_Q48, K_Q17 }]

InitStep5 ==
  /\ Holds(Step5Session)
  /\ last = NoAction
  /\ poll = PollIdle
  /\ edits = 0
  /\ saves = 0

EditStep5 == edits < MaxEditsStep5 /\ EditWidget

NextStep5 ==
  \/ EditStep5
  \/ SaveProgress
  \/ LoadSavedProgress
  \/ ClearCurrentAnswers
  \/ Back
  \/ ValidateStep
  \/ ValidateAgain
  \/ ContinueAnyway
  \/ ProceedToNextStep
  \/ Step5Back
  \/ ValidateFullForm
  \/ ReEvaluateFullForm
  \/ SubmitAnyway
  \/ Submit
  \/ StartNewForm

SpecStep5 == InitStep5 /\ [][NextStep5]_vars

\* ------------------------------------------------------------ the oracle's replies
\* The steps 1..4 with every kind of reply the service can give: the walk of
\* Spec without the sidebar, under an edit budget of its own.
ClickValidateAny(btn) ==
  \E reply \in OracleReplies, gc \in Cleanups(btn) :
    \E io \in StoreIOs(btn, reply) :
      Becomes(Interaction(Now, btn, io, gc), btn)

EditAudit == edits < MaxEditsAudit /\ EditWidget
ValidateStepAny == Displayed("Validate Step") /\ ClickValidateAny("Validate Step")
ValidateAgainAny == Displayed("Validate Again") /\ ClickValidateAny("Validate Again")

NextAudit ==
  \/ EditAudit
  \/ Back
  \/ ValidateStepAny
  \/ ValidateAgainAny
  \/ ContinueAnyway
  \/ ProceedToNextStep

SpecAudit == Init /\ [][NextAudit]_vars

\* Spec reaches the session SpecStep5 starts from.
Step5SessionReached ==
  /\ Holds(Step5Session)
  /\ last.act = "Proceed to Next Step"

\* ------------------------------------------------------------ the submission pipeline
\* The upload block of step 5 taken one statement at a time: upload_to_source,
\* the quiet period, the polling loop and what the block shows. poll.now is
\* time.time() in seconds; it moves with time.sleep and with the duration of a
\* get (latency).
GetLatencies == { 0, 2 }

\* The result buckets of the pipeline, by the second after the upload from which
\* the object is there, or from which every get fails with another error.
PollSpecStores ==
  { Store("appears", a, d) : a \in { 0, 40, 150, 300 }, d \in ResultDocs }
    \cup { Store("error", a, None) : a \in { 0, 100, 300 } }
    \cup { Store("never", 0, None) }

poll_begin(store, latency, case_id) ==
  [PollIdle EXCEPT !.pc = "upload", !.store = store, !.latency = latency, !.case_id = case_id]

\* success = upload_to_source(json_string, filename)
upload_to_source(p, ok) ==
  IF ok
  THEN [p EXCEPT
          !.upload_ok = TRUE,
          !.put_key = << "source_files/", Filename(p.case_id) >>,
          !.put_at = p.now,
          !.quiet_left = initial_wait,
          !.pc = "quiet"]
  ELSE [p EXCEPT !.upload_ok = FALSE, !.cause = "upload_failed", !.pc = "report"]

\* One round of the countdown: placeholder.info, time.sleep(1).
quiet_tick(p) ==
  [p EXCEPT
     !.message = "Processing... polling will start",
     !.now = @ + 1,
     !.quiet_left = @ - 1]

\* A poll that would count the quiet period against the timeout.
poll_start_at_upload(p) == [p EXCEPT !.start_time = p.put_at, !.pc = "loop"]

\* start_time = time.time()
poll_start(p) == [p EXCEPT !.start_time = p.now, !.pc = "loop"]

\* A loop that would still start a get when the timeout has just elapsed.
loop_test_inclusive(p) ==
  IF p.now - p.start_time <= timeout
  THEN [p EXCEPT
          !.message = "Checking S3 for result...",
          !.gets = @ + 1,
          !.get_key = Filename(p.case_id),
          !.get_at = p.now,
          !.first_get_at = IF p.gets = 0 THEN p.now ELSE @,
          !.pc = "get"]
  ELSE [p EXCEPT
          !.message = "Timeout: too long to process the file.",
          !.result = None,
          !.cause = "poll_timeout",
          !.pc = "report"]

\* while time.time() - start_time < timeout: ... s3.get_object(Key=filename)
loop_test(p) ==
  IF p.now - p.start_time < timeout
  THEN [p EXCEPT
          !.message = "Checking S3 for result...",
          !.gets = @ + 1,
          !.get_key = Filename(p.case_id),
          !.get_at = p.now,
          !.first_get_at = IF p.gets = 0 THEN p.now ELSE @,
          !.pc = "get"]
  ELSE [p EXCEPT
          !.message = "Timeout: too long to process the file.",
          !.result = None,
          !.cause = "poll_timeout",
          !.pc = "report"]

\* What the bucket answers a get issued t seconds after the upload.
Answer(store, t) ==
  IF store.kind = "appears" /\ t >= store.at THEN "object"
  ELSE IF store.kind = "error" /\ t >= store.at THEN "ClientError"
  ELSE "NoSuchKey"

\* return json.loads(file_content), or except Exception: return None
object_read(q) ==
  IF Decodes(q.store.doc)
  THEN [q EXCEPT
          !.result = json_loads(q.store.doc),
          !.message = "Processing Complete! Result received.",
          !.cause = "success",
          !.pc = "report"]
  ELSE [q EXCEPT
          !.result = None, !.message = "Error", !.cause = "poll_error", !.pc = "report"]

\* A poll that would take a missing key for an error.
not_found_gives_up(q) ==
  [q EXCEPT !.result = None, !.message = "S3 Error", !.cause = "poll_error", !.pc = "report"]

\* except ClientError with code NoSuchKey: time.sleep(5) comes next
not_found(q) == [q EXCEPT !.pc = "sleep"]

\* A poll that would wait and try again after any store error.
other_error_retries(q) == [q EXCEPT !.pc = "sleep"]

\* except ClientError with another code: return None
other_error(q) ==
  [q EXCEPT !.result = None, !.message = "S3 Error", !.cause = "poll_error", !.pc = "report"]

answered(q) ==
  CASE q.answer = "object" -> object_read(q)
    [] q.answer = "NoSuchKey" -> not_found(q)
    [] OTHER -> other_error(q)

get_object(p) ==
  answered([p EXCEPT !.answer = Answer(p.store, p.now - p.put_at), !.now = @ + p.latency])

\* time.sleep(5)
sleep_5(p) == [p EXCEPT !.now = @ + poll_sleep, !.sleeps = @ + 1, !.pc = "loop"]

\* The label of st.status and the document st.code shows.
report_status(upload_ok, result_data) ==
  IF ~upload_ok THEN "Upload Failed"
  ELSE IF FalsyDoc(result_data) THEN "Processing Failed or Timed Out"
  ELSE "Processing Complete!"

report(p) ==
  [p EXCEPT
     !.status = report_status(p.upload_ok, p.result),
     !.displayed = IF p.upload_ok /\ ~FalsyDoc(p.result) THEN p.result ELSE None,
     !.pc = "done"]

\* The wizard's variables, which the pipeline leaves alone.
wizard_vars ==
  << step, form_data, ss, plain, current_warning, aws_upload_started, force_restore,
     step_validation_passed, validated_step_data, aws_upload_triggered,
     final_validation_passed, dbq_draft, s3_puts, snapshot_step, audited, touched, last,
     edits, saves >>

InitPoll ==
  /\ Holds([Step5Session EXCEPT !.aws_upload_triggered = TRUE])
  /\ last = NoAction
  /\ edits = 0
  /\ saves = 0
  /\ poll \in { poll_begin(s, l, c) : s \in PollSpecStores, l \in GetLatencies, c \in CaseIds }

PollStep(p) == poll' = p /\ UNCHANGED wizard_vars

Upload == poll.pc = "upload" /\ \E ok \in BOOLEAN : PollStep(upload_to_source(poll, ok))
QuietTick == poll.pc = "quiet" /\ poll.quiet_left > 0 /\ PollStep(quiet_tick(poll))
PollStart == poll.pc = "quiet" /\ poll.quiet_left = 0 /\ PollStep(poll_start(poll))
LoopTest == poll.pc = "loop" /\ PollStep(loop_test(poll))
GetObject == poll.pc = "get" /\ PollStep(get_object(poll))
Sleep == poll.pc = "sleep" /\ PollStep(sleep_5(poll))
Report == poll.pc = "report" /\ PollStep(report(poll))

NextPoll ==
  \/ Upload
  \/ QuietTick
  \/ PollStart
  \/ LoopTest
  \/ GetObject
  \/ Sleep
  \/ Report

\* The script runs on: every statement of the block is executed in its turn.
SpecPoll == InitPoll /\ [][NextPoll]_vars /\ WF_vars(NextPoll)

\* What the pipeline reports: the value poll_output_bucket returns and the label
\* of the status box.
Reported(upload_ok, result_data) ==
  [ result |-> result_data, status |-> report_status(upload_ok, result_data) ]

\* ------------------------------------------------------------ claims
\* C1: whenever Proceed to Next Step takes the wizard from step k to step k+1,
\* the oracle's PASS behind the snapshot was given while the wizard was at step
\* k, on answers equal to the answers on screen at the click.
C1_ProceedOnOwnPass ==
  (last.act = "Proceed to Next Step" /\ last.handled /\ step = last.from + 1)
    => (last.pass_step = last.from /\ last.matched)

C3_RuleErrorStopsValidation ==
  [][ ( /\ last'.act \in { "Validate Step", "Validate Again", "Validate Full Form" }
        /\ last'.handled
        /\ last'.det_err )
      => ( /\ last'.oracle = 0
           /\ step' = step
           /\ validated_step_data' = validated_step_data
           /\ step_validation_passed' = step_validation_passed
           /\ current_warning' = current_warning ) ]_vars

C3_Witness ==
  /\ last.act = "Validate Again"
  /\ last.handled
  /\ last.det_err
  /\ Truthy(current_warning)

\* C4: proceed_to_next never takes the wizard from step k to step k+1 while the
\* deterministic rule of step k fails on the answers on screen at the click.
C4_NoAdvancePastRuleError ==
  (last.handled /\ last.from \in 1..4 /\ step = last.from + 1) => ~last.adv_det_err

\* C5: Continue Anyway and Submit Anyway never call the oracle, and when the
\* step's deterministic rule returns an error they leave the step and the
\* upload-triggered flag as they were.
C5_ForceRunsRuleFirst ==
  [][ (last'.act \in { "Continue Anyway", "Submit Anyway" } /\ last'.handled)
      => ( /\ last'.oracle = 0
           /\ last'.det_err = (python_validation(step, restore(Now).ss) # NoError)
           /\ last'.det_err =>
                 (step' = step /\ aws_upload_triggered' = aws_upload_triggered) ) ]_vars

C5_Witness ==
  /\ last.act = "Submit Anyway"
  /\ last.handled
  /\ last.det_err
  /\ step = 5
  /\ ~aws_upload_triggered

\* The readable answers of an uploaded envelope.
UploadedAnswers(put) ==
  { << put.body.DPA[i].Question, PyValue(put.body.DPA[i].Answer) >> :
      i \in { j \in 1..Len(put.body.DPA) : PyValue(put.body.DPA[j].Answer) \notin Sentinels } }

\* C6: an upload started by Submit sends the answers the whole-form audit gave
\* its PASS for.
C6_SubmitUploadsAudited ==
  (last.act = "Submit" /\ last.handled /\ Len(s3_puts) > 0)
    => UploadedAnswers(s3_puts[1]) = audited

\* The answers of an uploaded envelope as validate_step_5 reads answers: a null
\* is the empty string.
EnvelopeAnswers(put) ==
  [k \in Keys |->
     IF \E i \in 1..Len(put.body.DPA) : put.body.DPA[i].key = core_key(k)
     THEN LET a == PyValue(put.body.DPA[CHOOSE i \in 1..Len(put.body.DPA) :
                                          put.body.DPA[i].key = core_key(k)].Answer)
          IN  IF a = None THEN "" ELSE a
     ELSE Absent]

\* C7: the deterministic rule of step 5 passes on the answers of every envelope
\* that is uploaded.
C7_UploadPassesRule ==
  \A i \in 1..Len(s3_puts) : validate_step_5(EnvelopeAnswers(s3_puts[i])) = NoError

\* C8: an interaction uploads only when it is a click on Submit or Submit Anyway.
C8_UploadOnlyOnSubmit ==
  last.uploads > 0 => last.act \in { "Submit", "Submit Anyway" }

\* The unanswered values None, "", "--select--" and "--select an item--", and a
\* key the session state does not hold, read as one value.
Canon(v) == IF v \in Sentinels \cup { Absent } THEN None ELSE v

\* The live answers: the session state as the next script run reads it.
LiveAnswers == restore(Now).ss

\* The answer map of the draft in the slot.
DraftAnswers ==
  [k \in Keys |-> PyValue((CHOOSE d \in dbq_draft : TRUE).form_data[k])]

\* C9: a Load Saved Progress that follows a Save Progress with no interaction
\* in between leaves the step where it was and makes the committed and the
\* live answers the live answers of the save, the unanswered values read as one.
C9_SaveThenLoadRestores ==
  [][ (last.act = "Save Progress" /\ last.handled /\ last'.act = "Load Saved Progress")
      => ( /\ step' = step
           /\ \A k \in Keys :
                /\ Canon(form_data'[k]) = Canon(LiveAnswers[k])
                /\ Canon(LiveAnswers'[k]) = Canon(LiveAnswers[k]) ) ]_vars

\* A draft with answers, saved at a later step and loaded at once.
C9_Witness ==
  /\ last.act = "Load Saved Progress" /\ last.handled /\ last.after_save
  /\ step = 3
  /\ form_data[K_Q10c] \notin Sentinels
  /\ ss[K_Q48] = "No"

\* C10: after a Load Saved Progress on a slot that holds a draft, the step is
\* the draft's and, for every field, the committed and the live answer are the
\* draft's answer, the unanswered values read as one.
C10_LoadReplacesAnswers ==
  (last.act = "Load Saved Progress" /\ last.handled /\ dbq_draft # {})
    => ( /\ step = (CHOOSE d \in dbq_draft : TRUE).step
         /\ \A k \in Keys :
              /\ Canon(form_data[k]) = Canon(DraftAnswers[k])
              /\ Canon(LiveAnswers[k]) = Canon(DraftAnswers[k]) )

\* C11: after a handled interaction that changed the step, no snapshot is
\* stored and neither validation-passed flag is set.
C11_StepChangeDropsPass ==
  (last.handled /\ step # last.from)
    => ( /\ ~step_validation_passed
         /\ validated_step_data = NoSnapshot
         /\ ~final_validation_passed )

\* What the pipeline reports when it ends for one of the three failures: the
\* upload fails, the bucket answers a get with another error, the key is never
\* there.
FailureCauses == { "upload_failed", "poll_error", "poll_timeout" }

ReportedIf(cause) ==
  CASE cause = "upload_failed" -> Reported(FALSE, None)
    [] cause = "poll_error" ->
         Reported(TRUE, poll_output_bucket(Filename("123456"), Store("error", 0, None)).result)
    [] OTHER ->
         Reported(TRUE, poll_output_bucket(Filename("123456"), Store("never", 0, None)).result)

\* C12: a submission that ends with a failure reports a value that no other
\* failure reports: upload failure, polling error and polling timeout are told
\* apart by the value returned and the status shown.
C12_FailuresToldApart ==
  (poll.pc = "done" /\ poll.cause \in FailureCauses)
    => \A c \in FailureCauses \ { poll.cause } :
         Reported(poll.upload_ok, poll.result) # ReportedIf(c)

\* C13: an interaction in which the upload failed made no get against the
\* result bucket, and leaves the wizard with a submit button on screen.
C13_UploadFailureBackToSubmit ==
  (last.handled /\ last.uploads > 0 /\ Len(s3_puts) = 0)
    => ( /\ last.gets = 0
         /\ (Displayed("Submit") \/ Displayed("Submit Anyway")) )

\* C14: a get answered with not-found does not end the poll; the poll then
\* waits the fixed interval and, when the timeout has not elapsed, issues the
\* next get for the same key.
C14_NotFoundKeepsWaiting ==
  [][ /\ (poll.pc = "get" /\ poll'.answer = "NoSuchKey")
           => (poll'.pc = "sleep" /\ poll'.cause = "" /\ poll'.result = poll.result)
      /\ (poll.pc = "sleep")
           => (poll'.pc = "loop" /\ poll'.now = poll.now + poll_sleep /\ poll'.cause = "")
      /\ (poll.pc = "loop" /\ poll.answer = "NoSuchKey" /\ poll.now - poll.start_time < timeout)
           => ( /\ poll'.pc = "get"
                /\ poll'.gets = poll.gets + 1
                /\ poll'.get_key = poll.get_key ) ]_vars

\* A get issued after a not-found answer and the wait that follows it.
C14_Witness ==
  poll.pc = "get" /\ poll.answer = "NoSuchKey" /\ poll.sleeps > 0 /\ poll.get_at = poll.now

\* C15: a store error other than not-found, or an object that cannot be read
\* or decoded, ends the poll at once with a failure: the get it answers is the
\* last one, no wait follows it, and the attempt is reported as failed.
C15_OtherErrorEndsPoll ==
  [][ /\ ( /\ poll.pc = "get"
           /\ \/ poll'.answer = "ClientError"
              \/ (poll'.answer = "object" /\ ~Decodes(poll.store.doc)) )
           => ( /\ poll'.pc = "report"
                /\ poll'.cause = "poll_error"
                /\ poll'.result = None
                /\ poll'.gets = poll.gets
                /\ poll'.sleeps = poll.sleeps )
      /\ (poll.cause = "poll_error")
           => ( /\ poll'.pc = "done"
                /\ poll'.gets = poll.gets
                /\ poll'.sleeps = poll.sleeps
                /\ poll'.now = poll.now
                /\ poll'.status = "Processing Failed or Timed Out"
                /\ poll'.displayed = None ) ]_vars

\* A poll ended by a store error that came after not-found answers.
C15_Witness ==
  /\ poll.pc = "done"
  /\ poll.cause = "poll_error"
  /\ poll.answer = "ClientError"
  /\ poll.sleeps > 0
  /\ poll.gets = poll.sleeps + 1

\* C16: the poll always terminates; against a store that answers not-found
\* forever it ends with the timeout outcome; no get is started once the
\* timeout, measured from the first poll attempt, has elapsed; and the number
\* of gets is at most the timeout divided by the retry interval.
C16_PollTerminates ==
  /\ <>(poll.pc = "done")
  /\ []((poll.pc = "done" /\ poll.upload_ok /\ poll.store.kind = "never")
          => ( /\ poll.cause = "poll_timeout"
               /\ poll.message = "Timeout: too long to process the file."
               /\ poll.result = None ))
  /\ [](poll.gets > 0
          => ( /\ poll.first_get_at = poll.start_time
               /\ poll.get_at - poll.first_get_at < timeout ))
  /\ [](poll.gets <= timeout \div poll_sleep)

\* A poll against a store that never answers, ended by the timeout after as
\* many gets as the timeout allows.
C16_Witness ==
  /\ poll.pc = "done"
  /\ poll.store.kind = "never"
  /\ poll.cause = "poll_timeout"
  /\ poll.gets = timeout \div poll_sleep
  /\ poll.now - poll.start_time >= timeout

\* C17: no get is issued before the whole quiet period has elapsed after a
\* successful upload, and the quiet period is not counted against the polling
\* timeout: the timeout outcome comes no earlier than quiet period plus timeout
\* after the upload.
C17_QuietPeriodFirst ==
  /\ (poll.gets > 0)
       => ( /\ poll.upload_ok
            /\ poll.quiet_left = 0
            /\ poll.first_get_at - poll.put_at >= initial_wait
            /\ poll.get_at >= poll.first_get_at )
  /\ (poll.cause = "poll_timeout")
       => (poll.now - poll.put_at >= initial_wait + timeout)

\* A get started later after the upload than the timeout alone would allow.
C17_Witness ==
  /\ poll.pc = "get"
  /\ poll.upload_ok
  /\ poll.get_at - poll.put_at >= timeout
  /\ poll.get_at - poll.start_time < timeout

\* C18: whenever a get returns an object that deserializes, the attempt ends in
\* the success outcome and the deserialized document is what is displayed,
\* whatever the document is.
C18_DecodedDocumentIsSuccess ==
  (poll.pc = "done" /\ poll.answer = "object" /\ Decodes(poll.store.doc))
    => ( /\ poll.status = "Processing Complete!"
         /\ poll.displayed = json_loads(poll.store.doc) )

\* C19: every uploaded envelope holds exactly one DPA entry per identifier of
\* the field schema, in schema order, whatever was answered or skipped and
\* whether or not the answers were loaded from a draft.
C19_EnvelopeInSchemaOrder ==
  \A n \in 1..Len(s3_puts) :
    /\ Len(s3_puts[n].body.DPA) = Len(ALL_KEYS_ORDERED)
    /\ \A i \in 1..Len(ALL_KEYS_ORDERED) : s3_puts[n].body.DPA[i].key = core_key(ALL_KEYS_ORDERED[i])

\* An envelope uploaded by the run that loaded the answers from the draft, with
\* answered and unanswered fields in it.
C19_Witness ==
  /\ last.act = "Load Saved Progress"
  /\ last.handled
  /\ last.uploads > 0
  /\ dbq_draft # {}
  /\ form_data = DraftAnswers
  /\ Len(s3_puts) > 0
  /\ \E i, j \in 1..Len(s3_puts[Len(s3_puts)].body.DPA) :
       /\ i < j
       /\ s3_puts[Len(s3_puts)].body.DPA[i].Answer.t = "null"
       /\ s3_puts[Len(s3_puts)].body.DPA[j].Answer.t # "null"

\* A field the step bodies do not render under the answers m.
Hidden(m, k) ==
  CASE k = K_Q10c -> m[K_1a] \in { None, SelectItem }
    [] k = K_Q11a -> m[K_Q11] # "Yes"
    [] k \in { K_Q11aaa, K_Q11aab, K_Q11aac } -> m[K_Q11] # "Yes" \/ m[K_Q11a] \in { None, Select }
    [] k = K_Q34 -> m[K_Q48] \notin { None, "Yes" }
    [] k = K_Q17a -> m[K_Q17] \notin { None, "Yes" }
    [] OTHER -> FALSE

\* The entry of field k in an uploaded envelope.
EntryOf(put, k) ==
  put.body.DPA[CHOOSE i \in 1..Len(put.body.DPA) : put.body.DPA[i].key = core_key(k)]

\* C20: in the envelope an interaction uploads, a field that is hidden under
\* the committed answers, or whose committed value is None, "", "--select--" or
\* "--select an item--", has a null answer.
C20_UnansweredEmittedNull ==
  (last.handled /\ last.uploads > 0 /\ Len(s3_puts) > 0)
    => \A k \in Keys :
         (form_data[k] \in Sentinels \/ Hidden(form_data, k))
           => EntryOf(s3_puts[Len(s3_puts)], k).Answer.t = "null"

\* The step a field's widget is drawn on.
StepOf(k) ==
  CASE k \in { K_1a, K_Q10c } -> 1
    [] k \in { K_Q11, K_Q11a, K_Q11aaa, K_Q11aab, K_Q11aac } -> 2
    [] k \in { K_Q48, K_Q34 } -> 3
    [] k \in { K_Q17, K_Q17a } -> 4
    [] OTHER -> 5

\* The fields a readable answer set speaks of, and what it says of each.
PayloadKeys(payload) ==
  { k \in Keys : \E p \in payload : p[1] = QUESTION_MAP(core_key(k)) }

PayloadAnswers(payload) ==
  [ k \in Keys |->
      IF k \in PayloadKeys(payload)
      THEN (CHOOSE p \in payload : p[1] = QUESTION_MAP(core_key(k)))[2]
      ELSE None ]

\* The oracle was asked by the last action, a validation at one of the steps 1..4;
\* last.payload is the step_data it was sent.
OracleAsked ==
  /\ last.act \in { "Validate Step", "Validate Again" }
  /\ last.oracle > 0

\* C21: the payload a step-k validation sends to the oracle holds only answers
\* of fields that are visible and belong to step k or an earlier step.
C21_PayloadVisibleUpToStep ==
  OracleAsked =>
    \A k \in PayloadKeys(last.payload) :
      /\ StepOf(k) <= last.from
      /\ ~Hidden(PayloadAnswers(last.payload), k)

\* C21, the hidden-field half alone: no hidden field's answer is sent.
C21_NoHiddenFieldSent ==
  OracleAsked =>
    \A k \in PayloadKeys(last.payload) :
      ~Hidden(PayloadAnswers(last.payload), k)

\* C21, the later-step half alone: no later step's answer is sent.
C21_NoLaterStepSent ==
  OracleAsked =>
    \A k \in PayloadKeys(last.payload) : StepOf(k) <= last.from

\* The reply is a 200 response holding a JSON object whose status is "PASS".
SaidPass(r) ==
  /\ r.api_key
  /\ r.transport = "ok"
  /\ r.status_code = 200
  /\ r.body = "object"
  /\ r.status = "PASS"

\* C22: the outcome the controller sees is PASS exactly when the oracle replied
\* with status 200 and a JSON object whose status is "PASS"; every other reply
\* gives a FAIL that carries a hint.
C22_PassIffOracleSaidPass ==
  OracleAsked =>
    /\ last.ai_response = "PASS" <=> SaidPass(last.reply)
    /\ ~SaidPass(last.reply) => Truthy(last.ai_response)

\* C22, the equivalence alone.
C22_PassOnlyOnStatusPass ==
  OracleAsked => (last.ai_response = "PASS" <=> SaidPass(last.reply))

\* C22, the hint alone: a reply that is no PASS hands the controller a hint.
C22_FailCarriesHint ==
  (OracleAsked /\ ~SaidPass(last.reply)) => Truthy(last.ai_response)

\* C23: after a validation at step k whose rule passed and which the oracle did
\* not answer with PASS, the warning is on screen with both Validate Again and
\* Continue Anyway, so the next step can be reached with no PASS from the oracle.
C23_FailOffersForceContinue ==
  (OracleAsked /\ ~SaidPass(last.reply)) =>
    /\ step = last.from
    /\ Truthy(current_warning)
    /\ Displayed("Validate Again")
    /\ Displayed("Continue Anyway")

\* C23 for the replies whose hint is a text of its own: these do show the warning.
C23_HintShownWhenNonEmpty ==
  (OracleAsked /\ last.ai_response \notin { "PASS", "", None }) =>
    /\ step = last.from
    /\ current_warning = last.ai_response
    /\ Displayed("Validate Again")
    /\ Displayed("Continue Anyway")

\* C24: a validation whose rule passed ends in one of two states and leaves the
\* step as it was: on PASS the snapshot holds the answers that were sent, the
\* pass flag is set and no warning is pending; otherwise the warning holds what
\* the oracle call returned, the pass flag is cleared and there is no snapshot.
C24_ValidateEndsInPassOrFail ==
  OracleAsked =>
    /\ step = last.from
    /\ IF last.ai_response = "PASS"
       THEN /\ validated_step_data = last.payload
            /\ step_validation_passed
            /\ current_warning = None
       ELSE /\ current_warning = last.ai_response
            /\ ~step_validation_passed
            /\ validated_step_data = NoSnapshot

\* A warning was pending, Validate Again was clicked and the oracle passed the step.
C24_Witness ==
  /\ OracleAsked
  /\ last.act = "Validate Again"
  /\ last.from > 1
  /\ last.ai_response = "PASS"
  /\ step_validation_passed
  /\ validated_step_data = last.payload

\* The last action was a Back the script handled, at one of the steps 2..4 or at step 5.
WentBack == last.act \in { "Back", "Back (step 5)" } /\ last.handled

\* C25: Back at step k > 1 commits every live answer, then sets the step to
\* k - 1 and clears the snapshot, the pass flag and the pending warning; there
\* is no Back at step 1.
C25_BackCommitsAndStepsDown ==
  [][ WentBack' =>
        /\ step > 1
        /\ step' = step - 1
        /\ \A k \in Keys : ss[k] # Absent => form_data'[k] = ss[k]
        /\ validated_step_data' = NoSnapshot
        /\ ~step_validation_passed'
        /\ current_warning' = None ]_vars

\* Back from step 3 with the answers of step 3 committed by it.
C25_Witness ==
  /\ WentBack
  /\ last.from = 3
  /\ step = 2
  /\ form_data[K_Q48] = "No"
  /\ ss[K_Q48] = Absent \/ K_Q48 \in plain

\* C26: in every reachable state the step is an integer in 1..5.
C26_StepInRange == step \in 1..TOTAL_STEPS

\* The last step, reached by an advance from step 4 while a draft is stored.
C26_Witness ==
  /\ step = TOTAL_STEPS
  /\ last.act \in { "Proceed to Next Step", "Continue Anyway" }
  /\ last.from = 4
  /\ dbq_draft # {}

\* Save Progress was clicked a second time, with no interaction since the first.
SavedAgain == last.act = "Save Progress again" /\ last.handled

\* C27: a second Save Progress with no edit in between leaves the draft slot as
\* the first one left it, so a Load Saved Progress restores the same step and
\* the same answers as after one save.
C27_SaveTwiceIsSaveOnce ==
  [][ SavedAgain' =>
        /\ dbq_draft # {}
        /\ dbq_draft' = dbq_draft
        /\ LoadSavedProgressHandler(Now)'.step = LoadSavedProgressHandler(Now).step
        /\ LoadSavedProgressHandler(Now)'.form_data = LoadSavedProgressHandler(Now).form_data
     ]_vars

\* A draft with answers, saved twice in a row at a later step.
C27_Witness ==
  /\ SavedAgain
  /\ step = 3
  /\ dbq_draft # {}
  /\ DraftAnswers[K_Q10c] \notin Sentinels
  /\ DraftAnswers[K_Q48] = "No"

\* C28: Load Saved Progress on an empty draft slot reports that there is nothing
\* to restore and leaves the step, the committed and the live answers, the
\* snapshot, the pending warning and the slot as they were.
C28_LoadOnEmptySlotChangesNothing ==
  [][ (last'.act = "Load Saved Progress" /\ last'.handled /\ dbq_draft = {}) =>
        /\ last'.sidebar = "No saved progress found on this browser."
        /\ step' = step
        /\ form_data' = form_data
        /\ LiveAnswers' = LiveAnswers
        /\ validated_step_data' = validated_step_data
        /\ current_warning' = current_warning
        /\ dbq_draft' = {} ]_vars

\* Nothing was found to restore at step 2, with answers committed and a warning pending.
C28_Witness ==
  /\ last.act = "Load Saved Progress" /\ last.handled
  /\ last.sidebar = "No saved progress found on this browser."
  /\ step = 2
  /\ form_data[K_Q10c] \notin Sentinels
  /\ Truthy(current_warning)

\* The last action was a Clear Current Answers.
Cleared == last.act = "Clear Current Answers" /\ last.handled

\* C29: Clear Current Answers empties the draft slot and returns the wizard to
\* its initial state: step 1, every field unanswered, no snapshot, no pending
\* warning, no pass flag, no upload triggered; a Load Saved Progress right
\* after it finds nothing to restore.
C29_ClearReturnsToInitialState ==
  Cleared =>
    /\ dbq_draft = {}
    /\ step = 1
    /\ \A k \in Keys : form_data[k] = None /\ Canon(LiveAnswers[k]) = None
    /\ validated_step_data = NoSnapshot
    /\ current_warning = None
    /\ ~step_validation_passed
    /\ ~final_validation_passed
    /\ ~aws_upload_triggered
    /\ Holds([Opened EXCEPT !.s3_puts = s3_puts])
    /\ LoadSavedProgressHandler(Now).o_sidebar = "No saved progress found on this browser."

\* A Clear at step 3 of a session that had saved a draft.
C29_Witness ==
  /\ Cleared
  /\ last.from = 3
  /\ saves = 1
  /\ dbq_draft = {}

\* The envelopes the last interaction uploaded and then polled for.
Attempts == { s3_puts[i] : i \in 1..Len(s3_puts) }

\* C30: a submission attempt uses the case id generated in that attempt, and
\* the key it polls, the key it uploaded under and the caseID inside the
\* envelope all come from that one id.
C30_OneCaseIdPerAttempt ==
  \A put \in Attempts :
    /\ put.body.caseID = last.case_id
    /\ put.key = << "source_files/", Filename(put.body.caseID) >>
    /\ put.polled = Filename(put.body.caseID)

\* A second attempt in one session, under the other case id.
C30_Witness ==
  /\ Attempts # {}
  /\ last.act \notin { "Submit", "Submit Anyway" }
  /\ last.case_id = "654321"
  /\ \A put \in Attempts : put.polled = Filename("654321")

\* ------------------------------------------------------------ the medications rule
\* py_validate_meds on the session states step 2 can show it: the answer Yes, a
\* count chosen, the records the count renders typed in, the others absent or
\* left over from a larger count.
MedCounts == { "1", "2", "3", "More than 3" }

MedNames == { "", "Flonase" }

MedDoses == { "", "5", "10mg" }

MedFreqs == { "", "ab", "daily" }

MedExtras == { "", "See attached list." }

MedRecord(name, dose, freq) == << name, dose, freq >>

NoRecord == MedRecord(Absent, Absent, Absent)

MedRecords == { MedRecord(a, d, f) : a \in MedNames, d \in MedDoses, f \in MedFreqs }

\* The widgets of medication #i are rendered when the count reaches i.
MedRendered(num_meds, i) == i <= MedCount(num_meds)

MedForm(num_meds, r, extra) ==
  (K_Q11 :> "Yes") @@ (K_Q11a :> num_meds) @@ (K_Q11b :> extra)
  @@ (K_Q11aaa :> r[1][1]) @@ (K_Q11aab :> r[1][2]) @@ (K_Q11aac :> r[1][3])
  @@ (K_Q11aba :> r[2][1]) @@ (K_Q11abb :> r[2][2]) @@ (K_Q11abc :> r[2][3])
  @@ (K_Q11aca :> r[3][1]) @@ (K_Q11acb :> r[3][2]) @@ (K_Q11acc :> r[3][3])

MedsSession(form) == [Opened EXCEPT !.step = 2, !.ss = form]

InitMeds ==
  /\ \E num_meds \in MedCounts, extra \in MedExtras \cup { Absent } :
       \E r1 \in MedRecords, r2, r3 \in MedRecords \cup { NoRecord } :
         /\ MedRendered(num_meds, 2) => r2 # NoRecord
         /\ MedRendered(num_meds, 3) => r3 # NoRecord
         /\ MedRendered(num_meds, 4) => extra # Absent
         /\ Holds(MedsSession(MedForm(num_meds, << r1, r2, r3 >>, extra)))
  /\ last = NoAction
  /\ poll = PollIdle
  /\ edits = 0
  /\ saves = 0

\* The rule applied to the form, its message kept as the validate button shows it.
ApplyMedsRule ==
  /\ last.act = ""
  /\ last' = [NoAction EXCEPT
                !.act = "py_validate_meds", !.from = 2, !.handled = TRUE,
                !.det_err = (py_validate_meds(ss) # NoError),
                !.err = py_validate_meds(ss)]
  /\ UNCHANGED << step, form_data, ss, plain, current_warning, aws_upload_started,
                  force_restore, step_validation_passed, validated_step_data,
                  aws_upload_triggered, final_validation_passed, dbq_draft, s3_puts,
                  snapshot_step, audited, touched, poll, edits, saves >>

NextMeds == ApplyMedsRule

SpecMeds == InitMeds /\ [][NextMeds]_vars

\* What the rule asks of one medication record: a name of two characters or
\* more, a dosage and a frequency that are typed in, are not a bare number and
\* are long enough.
MedNameValid(form, i) == StrLen(Strip(Get(form, med_keys[i][1], ""))) >= 2

MedDoseValid(form, i) ==
  LET med_dose == Strip(Get(form, med_keys[i][2], ""))
  IN  med_dose # "" /\ ~IsDigit(med_dose) /\ StrLen(med_dose) >= 2

MedFreqValid(form, i) ==
  LET med_freq == Strip(Get(form, med_keys[i][3], ""))
  IN  med_freq # "" /\ ~IsDigit(med_freq) /\ StrLen(med_freq) >= 3

MedRecordValid(form, i) ==
  MedNameValid(form, i) /\ MedDoseValid(form, i) /\ MedFreqValid(form, i)

\* The records the count makes the rule check, and the first of them that is
\* not valid (0: none).
MedChecked(form) ==
  { i \in 1..3 : i <= MedCount(form[K_Q11a]) }

FirstBadRecord(form) ==
  LET bad == { i \in MedChecked(form) : ~MedRecordValid(form, i) }
  IN  IF bad = {} THEN 0 ELSE CHOOSE i \in bad : \A j \in bad : i <= j

FirstBadField(form, i) ==
  IF ~MedNameValid(form, i) THEN "Name"
  ELSE IF ~MedDoseValid(form, i) THEN "Dosage"
  ELSE "Frequency"

\* The field a message of the rule cites.
MessageField(msg) ==
  CASE msg = "Name is missing or too short." -> "Name"
    [] msg \in { "Dosage is missing.", "Dosage is invalid. You must include a unit.",
                 "Dosage is too short." } -> "Dosage"
    [] msg \in { "Frequency is missing.", "Frequency cannot be just a number.",
                 "Frequency is too short." } -> "Frequency"
    [] OTHER -> ""

ExtraMissing(form) ==
  form[K_Q11a] = "More than 3" /\ Strip(Get(form, K_Q11b, "")) = ""

MedsRuleApplied == last.act = "py_validate_meds"

\* C31: with the medication answer Yes and a count of 1, 2, 3 or More than 3,
\* the step-2 rule passes exactly when the first min(n, 3) records are valid
\* and, for More than 3, the additional text is typed in; otherwise its one
\* message is that of the first violation, by ascending medication number and,
\* within a medication, name, then dosage, then frequency, the additional text
\* last. With a count of 2 and only medication #1 filled in, the message cites
\* the name of medication #2.
C31_MedsRuleReportsFirstViolation ==
  MedsRuleApplied =>
    /\ (last.err = NoError) <=> (FirstBadRecord(ss) = 0 /\ ~ExtraMissing(ss))
    /\ last.det_err <=> (last.err # NoError)
    /\ FirstBadRecord(ss) # 0 =>
         /\ last.err.n = FirstBadRecord(ss)
         /\ MessageField(last.err.msg) = FirstBadField(ss, FirstBadRecord(ss))
    /\ (FirstBadRecord(ss) = 0 /\ ExtraMissing(ss)) =>
         last.err = Err("You selected 'More than 3' medications. Please list the additional ones in the text area.")
    /\ ( /\ ss[K_Q11a] = "2"
         /\ MedRecordValid(ss, 1)
         /\ \A k \in 1..3 : ss[med_keys[2][k]] = "" ) =>
         last.err = ErrN("Name is missing or too short.", 2)

\* The rule was applied to a count of 2 with medication #1 filled in and
\* medication #2 left empty, and its message cites the name of medication #2.
C31_Witness ==
  /\ MedsRuleApplied
  /\ ss[K_Q11a] = "2"
  /\ MedRecordValid(ss, 1)
  /\ \A k \in 1..3 : ss[med_keys[2][k]] = ""
  /\ last.err = ErrN("Name is missing or too short.", 2)

\* The rule passed a count of More than 3: three valid records and the
\* additional text.
C31_WitnessPass ==
  /\ MedsRuleApplied
  /\ ss[K_Q11a] = "More than 3"
  /\ last.err = NoError

\* ------------------------------------------------------------ the validator's key
\* The walk of SpecStep5 in a deployment whose secrets may lack GROQ_API_KEY:
\* validate_step then answers without sending a request.
KeyedReplies == { ReplyPass, ReplyFail, ReplyNoKey }

ClickValidateKeyed(btn) ==
  \E reply \in KeyedReplies, gc \in Cleanups(btn) :
    \E io \in StoreIOs(btn, reply) :
      Becomes(Interaction(Now, btn, io, gc), btn)

ValidateStepKeyed == Displayed("Validate Step") /\ ClickValidateKeyed("Validate Step")
ValidateAgainKeyed == Displayed("Validate Again") /\ ClickValidateKeyed("Validate Again")
ValidateFullFormKeyed ==
  Displayed("Validate Full Form") /\ ClickValidateKeyed("Validate Full Form")

NextKeyed ==
  \/ EditStep5
  \/ SaveProgress
  \/ LoadSavedProgress
  \/ ClearCurrentAnswers
  \/ Back
  \/ ValidateStepKeyed
  \/ ValidateAgainKeyed
  \/ ContinueAnyway
  \/ ProceedToNextStep
  \/ Step5Back
  \/ ValidateFullFormKeyed
  \/ ReEvaluateFullForm
  \/ SubmitAnyway
  \/ Submit
  \/ StartNewForm

SpecKeyed == InitStep5 /\ [][NextKeyed]_vars

\* The latest interaction was a validate action whose deterministic rule passed.
ValidateActs == { "Validate Step", "Validate Again", "Validate Full Form" }

ValidatedPastRule ==
  /\ last.act \in ValidateActs
  /\ last.handled
  /\ ~last.det_err

\* The requests the latest interaction sent to the oracle: validate_step sends
\* one when the key is set and none when it is not.
OracleRequests == IF last.reply.api_key THEN last.oracle ELSE 0

DraftOf(s, answers) ==
  { [step |-> s, form_data |-> [k \in Keys |-> JsonValue(answers[k])]] }

\* The answers a commit of the live widgets leaves in form_data.
CommittedNow == [k \in Keys |-> IF ss[k] # Absent THEN ss[k] ELSE form_data[k]]

Saved == last.act \in { "Save Progress", "Save Progress again" } /\ last.handled

\* C33: the draft slot is written only by Save Progress, which overwrites it
\* with the current step and the committed answers, and emptied only by Clear
\* Current Answers; every other interaction (an edit, validate, Proceed,
\* Continue Anyway, Back, Load, the step-5 buttons, Submit and Start New Form)
\* leaves its content as it was, with Load Saved Progress on screen to read it.
C33_DraftWrittenBySaveOnly ==
  [][ /\ Saved' => dbq_draft' = DraftOf(step, CommittedNow)
      /\ Cleared' => dbq_draft' = {}
      /\ ~(Saved' \/ Cleared') =>
           /\ dbq_draft' = dbq_draft
           /\ Displayed("Load Saved Progress")'
    ]_vars

\* A draft saved at an earlier step is still in the slot after the form was
\* submitted and Start New Form reset the session.
C33_Witness ==
  /\ last.act = "Start New Form" /\ last.handled
  /\ dbq_draft # {}
  /\ step = 1
  /\ (CHOOSE d \in dbq_draft : TRUE).step > 1

SnapshotStored == validated_step_data # NoSnapshot

\* C34: in every reachable state the step's validation-passed flag is set
\* exactly when a validation snapshot is stored; every operation sets both or
\* clears both.
C34_PassFlagIffSnapshot ==
  step_validation_passed <=> SnapshotStored

\* A pass and its snapshot that a load of the draft left in place together.
C34_Witness ==
  /\ last.act = "Load Saved Progress" /\ last.handled
  /\ dbq_draft # {}
  /\ step_validation_passed
  /\ SnapshotStored

\* A semantic warning is pending: current_warning holds a hint.
HintPending == current_warning # None

\* C35: a pending semantic warning and a validation pass never coexist:
\* whenever current_warning is set, step_validation_passed and
\* final_validation_passed are both false.
C35_NoWarningWithPass ==
  HintPending => (~step_validation_passed /\ ~final_validation_passed)

====
